---- MODULE Spec2Model ----
(***************************************************************************)
(* Model of the documentation improver's core: the gap detector            *)
(* (analyzer/gap_detector.py), the batch orchestrator and cache key of     *)
(* the generation client (integrations/claude_client_v2.py) and the cache  *)
(* store (utils/cache.py).                                                 *)
(*                                                                         *)
(* Python text is modelled as a tuple of one-character strings, so that    *)
(* lower(), strip(), startswith() and the substring test `kw in s` are     *)
(* computed character by character as the interpreter does.  Python's None *)
(* is the tuple Null, which is no text.                                    *)
(***************************************************************************)
EXTENDS Integers, Sequences, FiniteSets, TLC

\* ------------------------------------------------------------------------
\* Bounds of the model
\* ------------------------------------------------------------------------
MaxEntities == 2

MaxGaps == 3

MaxConcurrent == 2

MaxLiveGaps == 2

MaxTime == 3

MaxTTL == 1

\* ------------------------------------------------------------------------
\* Text helpers (Python str semantics)
\* ------------------------------------------------------------------------
Null == <<"<null>">>

\* Python truthiness of an Optional[str]: None and "" are falsy.
Truthy(s) == s /= Null /\ s /= <<>>

UpperChars == <<"A","B","C","D","E","F","G","H","I","J","K","L","M",
                "N","O","P","Q","R","S","T","U","V","W","X","Y","Z">>

LowerChars == <<"a","b","c","d","e","f","g","h","i","j","k","l","m",
                "n","o","p","q","r","s","t","u","v","w","x","y","z">>

LowerChar(c) ==
    IF \E k \in 1..Len(UpperChars) : UpperChars[k] = c
    THEN LowerChars[CHOOSE k \in 1..Len(UpperChars) : UpperChars[k] = c]
    ELSE c

\* str.lower()
Lower(s) == [i \in 1..Len(s) |-> LowerChar(s[i])]

\* `kw in s`
Contains(s, kw) ==
    \E i \in 1..(Len(s) - Len(kw) + 1) : SubSeq(s, i, i + Len(kw) - 1) = kw

\* any(keyword in s for keyword in kws)
ContainsAny(s, kws) == \E kw \in kws : Contains(s, kw)

\* str.startswith
StartsWith(s, p) == Len(s) >= Len(p) /\ SubSeq(s, 1, Len(p)) = p

Digits == <<"0","1","2","3","4","5","6","7","8","9">>

\* str(n) of a natural number
RECURSIVE IntToText(_)
IntToText(n) ==
    IF n < 10 THEN <<Digits[n + 1]>>
    ELSE IntToText(n \div 10) \o <<Digits[(n % 10) + 1]>>

Whitespace == {" ", "\n", "\t", "\r"}

\* str.strip()
Strip(s) ==
    LET nonws == {i \in 1..Len(s) : s[i] \notin Whitespace}
    IN  IF nonws = {} THEN <<>>
        ELSE SubSeq(s, CHOOSE i \in nonws : \A j \in nonws : i <= j,
                       CHOOSE i \in nonws : \A j \in nonws : i >= j)

\* hashlib.sha256(...).hexdigest(): taken to be free of collisions.
Sha256(bytes) == <<"sha256", bytes>>

\* ------------------------------------------------------------------------
\* models.py
\* ------------------------------------------------------------------------
Severity == {"critical", "high", "medium", "low"}

DocumentationType ==
    {"missing_docstring", "incomplete_docstring", "missing_readme",
     "missing_api_docs", "missing_examples", "outdated_docs",
     "missing_installation", "missing_usage", "missing_parameters",
     "missing_returns", "missing_exceptions", "unclear_description"}

\* ------------------------------------------------------------------------
\* Inputs of the gap detector: the field values entities are drawn from
\* ------------------------------------------------------------------------
DocShort == <<"D","o","e","s"," ","s","o","m","e","t","h","i","n","g",".">>

DocPadded == <<" "," ","A","d","d","s"," ","t","w","o"," ","n","u","m","b","e","r","s","."," "," ","\n">>

DocPlain == <<"C","o","m","p","u","t","e"," ","t","h","e"," ","t","o","t","a","l"," ","o","f"," ","x",".">>

DocFull == <<"A","r","g","s",":"," ","x","\n","R","e","t","u","r","n","s",":"," ","i","n","t","\n","R","a","i","s","e","s",":"," ","E">>

DocArgsOnly == <<"a","r","g","s",":"," ","x">>

Docstrings == {Null, <<>>, DocShort, DocPadded, DocPlain, DocFull, DocArgsOnly}

SigPlain == <<"d","e","f"," ","f","(","x",")",":">>

SigRaise == <<"d","e","f"," ","R","a","i","s","e","_","e","r","r","o","r","(","x",")",":">>

Signatures == {Null, SigPlain, SigRaise}

ReturnTypes == {Null, <<>>, <<"N","o","n","e">>, <<"i","n","t">>}

Names == {<<"f">>, <<"_","f">>}

EntityTypes == {"module", "class", "function", "method"}

ParameterLists == {<<>>, <<[name |-> <<"x">>]>>}

FilePath == <<"t",".","p","y">>

\* Every CodeEntity over the field values above (line_number is set by the
\* position in the analysed list: distinct entities sit at distinct lines).
EntityShapes ==
    [name : Names, type : EntityTypes, file_path : {FilePath},
     line_number : {0}, signature : Signatures, docstring : Docstrings,
     is_public : BOOLEAN, parameters : ParameterLists,
     return_type : ReturnTypes]

\* A smaller pool of entities for the lists of more than one entity.
PoolShapes ==
    {e \in EntityShapes :
        /\ e.type \in {"function", "method"}
        /\ e.signature = Null
        /\ e.return_type \in {Null, <<"i","n","t">>}
        /\ e.docstring \in {Null, DocShort, DocFull}
        /\ e.parameters /= <<>>}

AtLine(e, n) == [e EXCEPT !.line_number = n]

RECURSIVE ListsOver(_, _)
ListsOver(S, n) ==
    IF n = 0 THEN {<<>>}
    ELSE LET shorter == ListsOver(S, n - 1)
         IN  shorter \cup
             {Append(l, AtLine(e, Len(l) + 1)) : l \in {x \in shorter : Len(x) = n - 1}, e \in S}

EntityLists ==
    {<<AtLine(e, 1)>> : e \in EntityShapes} \cup ListsOver(PoolShapes, MaxEntities)

\* ------------------------------------------------------------------------
\* analyzer/gap_detector.py
\* ------------------------------------------------------------------------
ParamKeywords ==
    {<<"a","r","g","s",":">>, <<"p","a","r","a","m","e","t","e","r","s",":">>,
     <<"a","r","g","u","m","e","n","t","s",":">>, <<"p","a","r","a","m"," ">>,
     <<":","p","a","r","a","m">>}

ReturnKeywords ==
    {<<"r","e","t","u","r","n","s",":">>, <<"r","e","t","u","r","n",":">>,
     <<":","r","e","t","u","r","n","s",":">>, <<":","r","e","t","u","r","n",":">>}

ExceptionKeywords ==
    {<<"r","a","i","s","e","s",":">>, <<"r","a","i","s","e",":">>,
     <<"t","h","r","o","w","s",":">>, <<":","r","a","i","s","e","s",":">>}

MinDescriptionLength == 20

\* str(uuid.uuid4()): a fresh identifier; the n-th gap a detector creates
\* gets the text "uuid-n".
GenerateGapId(gs) == <<"u","u","i","d","-">> \o IntToText(Len(gs) + 1)

\* f"{entity.file_path}:{entity.line_number}"
Location(e) == e.file_path \o <<":">> \o IntToText(e.line_number)

DetermineSeverity_NoUnderscoreCheck(e) ==
    IF e.type \in {"class", "function"} /\ e.is_public
    THEN "critical"
    ELSE IF e.type = "method" /\ e.is_public /\ e.parameters /= <<>>
    THEN "high"
    ELSE IF e.is_public THEN "medium"
    ELSE "low"

DetermineSeverity(e) ==
    IF e.type \in {"class", "function"} /\ e.is_public
       /\ ~StartsWith(e.name, <<"_">>)
    THEN "critical"
    ELSE IF e.type = "method" /\ e.is_public /\ e.parameters /= <<>>
    THEN "high"
    ELSE IF e.is_public THEN "medium"
    ELSE "low"

AddMissingDocstringGap(gs, e) ==
    Append(gs, [id |-> GenerateGapId(gs),
                gap_type |-> "missing_docstring",
                severity |-> DetermineSeverity(e),
                location |-> Location(e),
                entity |-> e,
                description |-> <<e.type, e.name, "has no docstring">>,
                current_documentation |-> Null,
                context |-> [entity_type |-> e.type, entity_name |-> e.name,
                             signature |-> e.signature]])

AddIncompleteGap_SeverityByGapType(gs, e, gap_type, description) ==
    Append(gs, [id |-> GenerateGapId(gs),
                gap_type |-> gap_type,
                severity |-> IF gap_type = "unclear_description" THEN "low"
                             ELSE DetermineSeverity(e),
                location |-> Location(e),
                entity |-> e,
                description |-> <<e.type, e.name, description>>,
                current_documentation |-> e.docstring,
                context |-> [entity_type |-> e.type, entity_name |-> e.name,
                             signature |-> e.signature]])

AddIncompleteGap(gs, e, gap_type, description) ==
    Append(gs, [id |-> GenerateGapId(gs),
                gap_type |-> gap_type,
                severity |-> DetermineSeverity(e),
                location |-> Location(e),
                entity |-> e,
                description |-> <<e.type, e.name, description>>,
                current_documentation |-> e.docstring,
                context |-> [entity_type |-> e.type, entity_name |-> e.name,
                             signature |-> e.signature]])

\* entity.return_type and entity.return_type != 'None'
ReturnsDocumentable(e) ==
    Truthy(e.return_type) /\ e.return_type /= <<"N","o","n","e">>

TooBrief_NoStrip(e) == Len(e.docstring) < MinDescriptionLength

\* len(entity.docstring.strip()) < 20
TooBrief(e) == Len(Strip(e.docstring)) < MinDescriptionLength

ExampleKeywords ==
    {<<"e","x","a","m","p","l","e",":">>, <<"e","x","a","m","p","l","e","s",":">>,
     <<">",">",">">>, <<"u","s","a","g","e",":">>}

AnalyzeDocstringCompleteness_UsageGap(gs, e) ==
    IF ~Truthy(e.docstring) THEN gs
    ELSE
    LET docstring_lower == Lower(e.docstring)
        g1 == IF e.parameters /= <<>> /\ ~ContainsAny(docstring_lower, ParamKeywords)
              THEN AddIncompleteGap(gs, e, "missing_parameters",
                                    "Parameters are not documented")
              ELSE gs
        g2 == IF ReturnsDocumentable(e) /\ ~ContainsAny(docstring_lower, ReturnKeywords)
              THEN AddIncompleteGap(g1, e, "missing_returns",
                                    "Return value is not documented")
              ELSE g1
        g3 == IF Truthy(e.signature) /\ Contains(Lower(e.signature), <<"r","a","i","s","e">>)
                 /\ ~ContainsAny(docstring_lower, ExceptionKeywords)
              THEN AddIncompleteGap(g2, e, "missing_exceptions",
                                    "Exceptions are not documented")
              ELSE g2
        gx == IF e.type \in {"function", "method"} /\ e.is_public
                 /\ ~ContainsAny(docstring_lower, ExampleKeywords)
                 /\ Len(e.parameters) > 0
              THEN AddIncompleteGap(g3, e, "missing_examples",
                                    "Usage examples are missing")
              ELSE g3
        g4 == IF TooBrief(e)
              THEN AddIncompleteGap(gx, e, "unclear_description",
                                    "Description is too brief to be helpful")
              ELSE gx
    IN  g4

\* _analyze_docstring_completeness. The check for usage examples only
\* appends to the local list issues, which nothing reads: it adds no gap.
AnalyzeDocstringCompleteness(gs, e) ==
    IF ~Truthy(e.docstring) THEN gs
    ELSE
    LET docstring_lower == Lower(e.docstring)
        g1 == IF e.parameters /= <<>> /\ ~ContainsAny(docstring_lower, ParamKeywords)
              THEN AddIncompleteGap(gs, e, "missing_parameters",
                                    "Parameters are not documented")
              ELSE gs
        g2 == IF ReturnsDocumentable(e) /\ ~ContainsAny(docstring_lower, ReturnKeywords)
              THEN AddIncompleteGap(g1, e, "missing_returns",
                                    "Return value is not documented")
              ELSE g1
        g3 == IF Truthy(e.signature) /\ Contains(Lower(e.signature), <<"r","a","i","s","e">>)
                 /\ ~ContainsAny(docstring_lower, ExceptionKeywords)
              THEN AddIncompleteGap(g2, e, "missing_exceptions",
                                    "Exceptions are not documented")
              ELSE g2
        g4 == IF TooBrief(e)
              THEN AddIncompleteGap(g3, e, "unclear_description",
                                    "Description is too brief to be helpful")
              ELSE g3
    IN  g4

SkipEntity_Never(e) == FALSE

\* if not entity.is_public: continue
SkipEntity(e) == ~e.is_public

RECURSIVE AnalyzeFrom(_, _, _)
AnalyzeFrom(ents, i, gs) ==
    IF i > Len(ents) THEN gs
    ELSE LET e == ents[i]
         IN  AnalyzeFrom(ents, i + 1,
                 IF SkipEntity(e) THEN gs
                 ELSE IF ~Truthy(e.docstring) THEN AddMissingDocstringGap(gs, e)
                 ELSE AnalyzeDocstringCompleteness(gs, e))

\* self.gaps = []; for entity in entities: ...; return self.gaps
AnalyzeCodeEntities(ents) == AnalyzeFrom(ents, 1, <<>>)

\* ------------------------------------------------------------------------
\* integrations/claude_client_v2.py: batch_generate_async
\* ------------------------------------------------------------------------
\* What self.cache.async_manager raises: CacheManager has no such attribute.
ErrNoAsyncManager == "'CacheManager' object has no attribute 'async_manager'"

\* Failures of the LLM call (messages.create) or of parsing its response.
ApiErrors == {"APIConnectionError", "RateLimitError"}

\* What a raising progress callback raises.
ErrCallback == "callback failed"

\* (documentation, reasoning) pairs a successful generation returns.
GenPairs == {<<"doc1", "why1">>, <<"doc2", "why2">>}

NoOutcome == [kind |-> "none"]

Returned(pair) == [kind |-> "ok", pair |-> pair]

Raised(err) == [kind |-> "raised", err |-> err]

\* ("", f"Error: {str(e)}")
ErrorPlaceholder(err) == <<"", <<"Error: ", err>>>>

SemaphoreAvailable_Always(value) == TRUE

\* asyncio.Semaphore: acquire() goes through only while the value is positive.
SemaphoreAvailable(value) == value > 0

\* The body of process_gap after generate_documentation_async has come back
\* with `outcome`: the progress callback runs inside the try block, so an
\* exception it raises is caught by the same handler as a failed generation.
ProcessGapResult(index, outcome, callback, callbackRaises) ==
    IF outcome.kind = "ok"
    THEN IF callback /\ callbackRaises
         THEN <<index, ErrorPlaceholder(ErrCallback)>>
         ELSE <<index, outcome.pair>>
    ELSE <<index, ErrorPlaceholder(outcome.err)>>

\* [r for r in completed if not isinstance(r, Exception)]
NotException(completed) == SelectSeq(completed, LAMBDA r : r[1] \in Int)

\* Insertion of r into a list sorted by index, after the elements whose index
\* is not larger (sorted() is stable).
RECURSIVE InsertByIndex(_, _)
InsertByIndex(sorted, r) ==
    IF sorted = <<>> THEN <<r>>
    ELSE IF r[1] < Head(sorted)[1] THEN <<r>> \o sorted
    ELSE <<Head(sorted)>> \o InsertByIndex(Tail(sorted), r)

RECURSIVE InsertByIndexDescending(_, _)
InsertByIndexDescending(sorted, r) ==
    IF sorted = <<>> THEN <<r>>
    ELSE IF r[1] > Head(sorted)[1] THEN <<r>> \o sorted
    ELSE <<Head(sorted)>> \o InsertByIndexDescending(Tail(sorted), r)

RECURSIVE SortedByIndex_Descending(_)
SortedByIndex_Descending(rs) ==
    IF rs = <<>> THEN <<>>
    ELSE InsertByIndexDescending(
             SortedByIndex_Descending(SubSeq(rs, 1, Len(rs) - 1)), rs[Len(rs)])

\* sorted(rs, key=lambda x: x[0])
RECURSIVE SortedByIndex(_)
SortedByIndex(rs) ==
    IF rs = <<>> THEN <<>>
    ELSE InsertByIndex(SortedByIndex(SubSeq(rs, 1, Len(rs) - 1)), rs[Len(rs)])

\* The value batch_generate_async returns, given what asyncio.gather
\* returned (one entry per task, in the order of the tasks).
BatchReturn(completed) ==
    LET sorted_results == SortedByIndex(NotException(completed))
    IN  [k \in 1..Len(sorted_results) |-> sorted_results[k][2]]

\* ------------------------------------------------------------------------
\* integrations/claude_client_v2.py: _generate_cache_key
\* ------------------------------------------------------------------------
\* x or ""
OrEmpty(x) == IF Truthy(x) THEN x ELSE <<>>

\* str() of a float given in tenths, such as 0.3
StrTenths(t) == IntToText(t \div 10) \o <<".">> \o IntToText(t % 10)

\* repr() of a parameter dict, its keys in insertion order
ReprParam(p) ==
    <<"{", "'name': ", "'">> \o p.name \o <<"'">>
    \o (IF "type" \in DOMAIN p
        THEN <<", ", "'type': ", "'">> \o p.type \o <<"'">>
        ELSE <<>>)
    \o <<"}">>

RECURSIVE JoinWith(_, _)
\* sep.join(parts)
JoinWith(sep, parts) ==
    IF parts = <<>> THEN <<>>
    ELSE IF Len(parts) = 1 THEN parts[1]
    ELSE parts[1] \o sep \o JoinWith(sep, Tail(parts))

\* str() of a list of parameter dicts
StrParameters(ps) ==
    <<"[">> \o JoinWith(<<", ">>, [k \in 1..Len(ps) |-> ReprParam(ps[k])]) \o <<"]">>

\* DocumentationGap.entity is None
NoEntity == [absent |-> TRUE]

GenerateCacheKey_WithSeverity(gap, config) ==
    Sha256(JoinWith(<<"|">>,
        <<<<gap.gap_type>>, gap.location, config.model,
          StrTenths(config.temperature), config.style, <<gap.severity>>>>
        \o (IF gap.entity /= NoEntity
            THEN <<gap.entity.name, OrEmpty(gap.entity.signature),
                   StrParameters(gap.entity.parameters),
                   OrEmpty(gap.entity.return_type)>>
            ELSE <<>>)))

GenerateCacheKey(gap, config) ==
    Sha256(JoinWith(<<"|">>,
        <<<<gap.gap_type>>, gap.location, config.model,
          StrTenths(config.temperature), config.style>>
        \o (IF gap.entity /= NoEntity
            THEN <<gap.entity.name, OrEmpty(gap.entity.signature),
                   StrParameters(gap.entity.parameters),
                   OrEmpty(gap.entity.return_type)>>
            ELSE <<>>)))

\* The gaps and configurations the key is computed for.
KeyEntities ==
    {NoEntity} \cup
    [name : Names, signature : {Null, SigPlain},
     parameters : {<<>>, <<[name |-> <<"x">>, type |-> <<"i","n","t">>]>>},
     return_type : {Null, <<"i","n","t">>}]

KeyGaps ==
    [id : {<<"u","u","i","d","-","1">>, <<"u","u","i","d","-","2">>},
     gap_type : {"missing_docstring", "missing_returns"},
     severity : {"critical", "medium"},
     location : {FilePath \o <<":","1">>, FilePath \o <<":","2">>},
     entity : KeyEntities,
     description : {"has no docstring", "Return value is not documented"},
     current_documentation : {Null, DocShort},
     context : {[entity_type |-> "function"], [entity_type |-> "method"]}]

GenerationConfigs ==
    [model : {<<"claude-3-5-sonnet-20241022">>},
     temperature : {3, 10},
     style : {<<"google">>, <<"numpy">>}]

\* ------------------------------------------------------------------------
\* utils/cache.py: CacheManager
\* ------------------------------------------------------------------------
\* The clock datetime.now() reads, in ticks; an hour is TicksPerHour ticks
\* and the ticks within an hour stand for its fractional part.
TicksPerHour == 2

\* datetime.isoformat(): the fractional part is printed only when it is not
\* zero, so the text has one or two fields.
IsoFormat(t) ==
    IF t % TicksPerHour = 0 THEN <<t \div TicksPerHour>>
    ELSE <<t \div TicksPerHour, t % TicksPerHour>>

\* datetime.fromisoformat()
FromIsoFormat(text) ==
    text[1] * TicksPerHour + (IF Len(text) > 1 THEN text[2] ELSE 0)

\* datetime.now() + timedelta(hours=ttl_hours)
ExpiryOf(t, ttl_hours) == t + ttl_hours * TicksPerHour

\* SQLite's comparison of two TEXT values: field by field, a proper prefix
\* sorting first.
RECURSIVE TextLess(_, _)
TextLess(a, b) ==
    IF b = <<>> THEN FALSE
    ELSE IF a = <<>> THEN TRUE
    ELSE IF Head(a) /= Head(b) THEN Head(a) < Head(b)
    ELSE TextLess(Tail(a), Tail(b))

\* e.model_dump() / e.dict(); an item that is a dict already is kept.
ModelDump(e) == [e EXCEPT !.form = "dict"]

\* json.dumps / json.loads of a list of dicts
JsonDumps(x) == <<"json", x>>

JsonLoads(text) == text[2]

\* fetchone() of SELECT ... WHERE key = ?: None when no row matches.
NoRow == [key |-> "<none>"]

SelectByKey(table, k) ==
    IF \E r \in table : r.key = k
    THEN CHOOSE r \in table : r.key = k
    ELSE NoRow

DeleteByKey_Nothing(table, k) == table

\* DELETE FROM ... WHERE key = ?
DeleteByKey(table, k) == {r \in table : r.key /= k}

InsertOrReplace_Ignore(table, row) ==
    IF \E r \in table : r.key = row.key THEN table ELSE table \cup {row}

\* INSERT OR REPLACE on a table whose primary key is `key`
InsertOrReplace(table, row) ==
    {r \in table : r.key /= row.key} \cup {row}

\* datetime.now() > expires
IsExpired(t, expires_at) == t > FromIsoFormat(expires_at)

\* get_api_response: the value returned and the table left behind.
GetApiResponse(table, k, t) ==
    LET row == SelectByKey(table, k) IN
    IF row = NoRow THEN [result |-> Null, table |-> table]
    ELSE IF IsExpired(t, row.expires_at)
    THEN [result |-> Null, table |-> DeleteByKey(table, k)]
    ELSE [result |-> row.value, table |-> table]

\* set_api_response: the table left behind.
SetApiResponse(table, k, v, ttl_hours, t) ==
    InsertOrReplace(table, [key |-> k, value |-> v,
                            expires_at |-> IsoFormat(ExpiryOf(t, ttl_hours))])

Absent == "<absent>"

HashChanged_Never(cached_hash, current_hash) == FALSE

\* cached_hash != current_hash
HashChanged(cached_hash, current_hash) == cached_hash /= current_hash

\* get_file_analysis: the value returned and the table left behind.
GetFileAnalysis(table, path, bytes) ==
    IF bytes = Absent THEN [result |-> Null, table |-> table]
    ELSE LET current_hash == Sha256(bytes)
             row == SelectByKey(table, path)
         IN  IF row = NoRow THEN [result |-> Null, table |-> table]
             ELSE IF HashChanged(row.file_hash, current_hash)
             THEN [result |-> Null, table |-> DeleteByKey(table, path)]
             ELSE [result |-> JsonLoads(row.entities), table |-> table]

\* set_file_analysis: the table left behind (unchanged when the file
\* cannot be read).
SetFileAnalysis(table, path, ents, bytes) ==
    IF bytes = Absent THEN table
    ELSE InsertOrReplace(table,
             [key |-> path, file_hash |-> Sha256(bytes),
              entities |-> JsonDumps([k \in 1..Len(ents) |-> ModelDump(ents[k])])])

ExpiredRows_ByHour(table, t) ==
    {r \in table : r.expires_at[1] < IsoFormat(t)[1]}

\* clear_expired: DELETE ... WHERE expires_at IS NOT NULL AND expires_at < ?
ExpiredRows(table, t) == {r \in table : TextLess(r.expires_at, IsoFormat(t))}

\* ------------------------------------------------------------------------
\* integrations/claude_client_v2.py: _parse_response (the same code as
\* ClaudeClient._parse_response in integrations/claude_client.py)
\* ------------------------------------------------------------------------
\* A response is a sequence of pieces; each marker is one piece.
MaxResponseLen == 4

DocMarker == "DOCUMENTATION:"

ReasoningMarker == "REASONING:"

GenericReasoning == <<"Generated comprehensive documentation">>

\* The backtick character.
Backtick == "<backtick>"

ResponsePieces == {DocMarker, ReasoningMarker, "a", " ", Backtick}

RECURSIVE ListsUpTo(_, _)
\* The lists of at most n items from S.
ListsUpTo(S, n) ==
    IF n = 0 THEN {<<>>}
    ELSE LET shorter == ListsUpTo(S, n - 1)
         IN  shorter \cup
             {Append(t, p) : t \in {x \in shorter : Len(x) = n - 1}, p \in S}

Responses == ListsUpTo(ResponsePieces, MaxResponseLen)

\* marker in content
HasMarker(s, m) == \E i \in 1..Len(s) : s[i] = m

RECURSIVE SplitOn(_, _)
\* s.split(m): the pieces between the occurrences of m
SplitOn(s, m) ==
    IF ~HasMarker(s, m) THEN <<s>>
    ELSE LET i == CHOOSE k \in 1..Len(s) :
                      s[k] = m /\ \A j \in 1..(k - 1) : s[j] /= m
         IN  <<SubSeq(s, 1, i - 1)>> \o SplitOn(SubSeq(s, i + 1, Len(s)), m)

\* str.strip(chars)
StripChars(s, chars) ==
    LET kept == {i \in 1..Len(s) : s[i] \notin chars}
    IN  IF kept = {} THEN <<>>
        ELSE SubSeq(s, CHOOSE i \in kept : \A j \in kept : i <= j,
                       CHOOSE i \in kept : \A j \in kept : i >= j)

\* part.strip(), then the backticks are stripped and strip() is called again
CleanUp(part) == Strip(StripChars(Strip(part), {Backtick}))

\* _parse_response: the pair returned, or the exception the indexing raises
\* when no DOCUMENTATION: marker stands before the first REASONING: marker.
ParseResponse(text) ==
    IF HasMarker(text, DocMarker) /\ HasMarker(text, ReasoningMarker)
    THEN LET parts == SplitOn(text, ReasoningMarker)
             doc_parts == SplitOn(parts[1], DocMarker)
         IN  IF Len(doc_parts) < 2 THEN Raised("IndexError")
             ELSE Returned(<<CleanUp(doc_parts[2]), CleanUp(parts[2])>>)
    ELSE Returned(<<Strip(text), GenericReasoning>>)

\* ------------------------------------------------------------------------
\* integrations/claude_client_v2.py: generate_documentation_async, and
\* integrations/claude_client.py: generate_documentation
\* ------------------------------------------------------------------------
MaxCalls == 2

\* The attributes an object of each cache class has.
ClassAttributes ==
    [CacheManager |->
        {"cache_dir", "db_path", "_initialized", "initialize",
         "_hash_content", "_hash_dict", "get_api_response",
         "set_api_response", "get_file_analysis", "set_file_analysis",
         "clear_expired", "clear_all", "get_stats"},
     SyncCacheManager |->
        {"async_manager", "_run_async", "get_api_response",
         "set_api_response", "clear_expired", "clear_all", "get_stats"}]

HasAttr(class, attr) == attr \in ClassAttributes[class]

\* self.cache = CacheManager() if use_cache else None
CacheObject(use) == IF use THEN "CacheManager" ELSE "None"

\* ttl_hours=72
ApiResponseTtlHours == 72

\* What the LLM request of one call does: it fails with an API error or
\* returns a response text (the field pair of Returned holds the text).
GenResponses ==
    {<<DocMarker, "a", ReasoningMarker, "a">>, <<"a">>,
     <<ReasoningMarker, DocMarker>>}

LlmBehaviours ==
    {Raised(e) : e \in ApiErrors} \cup {Returned(text) : text \in GenResponses}

TryGenerate_Swallow(llm) ==
    IF llm.kind = "raised" THEN Returned(<<<<>>, <<llm.err>>>>)
    ELSE ParseResponse(llm.pair)

\* The try block up to the parsed pair: messages.create and _parse_response;
\* whatever either raises is logged and raised again.
TryGenerate(llm) ==
    IF llm.kind = "raised" THEN Raised(llm.err)
    ELSE ParseResponse(llm.pair)

\* ClaudeClient.generate_documentation: how the call ends and the number of
\* LLM requests it made.
GenerateDocumentation(gap, llm) ==
    [outcome |-> TryGenerate(llm), llm_calls |-> 1]

\* ClaudeClientV2.generate_documentation_async: how the call ends, the
\* number of LLM requests it made and the api_cache table it leaves.
GenerateDocumentationAsync(cache, table, gap, config, llm, t) ==
    LET cache_key == IF cache /= "None" THEN GenerateCacheKey(gap, config)
                     ELSE Null
        generated == TryGenerate(llm)
        \* from the prompt to the return, on the table the lookup left
        Fresh(tbl) ==
            IF cache /= "None" /\ Truthy(cache_key) /\ generated.kind = "ok"
            THEN IF HasAttr(cache, "async_manager")
                 THEN [outcome |-> generated, llm_calls |-> 1,
                       table |-> SetApiResponse(tbl, cache_key,
                                     JsonDumps(generated.pair),
                                     ApiResponseTtlHours, t)]
                 ELSE [outcome |-> Raised(ErrNoAsyncManager), llm_calls |-> 1,
                       table |-> tbl]
            ELSE [outcome |-> generated, llm_calls |-> 1, table |-> tbl]
    IN  IF cache = "None" THEN Fresh(table)
        ELSE IF ~HasAttr(cache, "async_manager")
        THEN [outcome |-> Raised(ErrNoAsyncManager), llm_calls |-> 0,
              table |-> table]
        ELSE LET got == GetApiResponse(table, cache_key, t) IN
             IF Truthy(got.result)
             THEN [outcome |-> Returned(JsonLoads(got.result)),
                   llm_calls |-> 0, table |-> got.table]
             ELSE Fresh(got.table)

\* The gaps documentation is generated for: two locations, and at each
\* location two gaps that differ in their id only.
GenGaps ==
    {g \in KeyGaps :
        /\ g.gap_type = "missing_docstring"
        /\ g.severity = "critical"
        /\ g.entity = NoEntity
        /\ g.description = "has no docstring"
        /\ g.current_documentation = Null
        /\ g.context = [entity_type |-> "function"]}

\* GenerationConfig()
DefaultConfig ==
    [model |-> <<"claude-3-5-sonnet-20241022">>, temperature |-> 3,
     style |-> <<"google">>]

\* ------------------------------------------------------------------------
\* analyzer/gap_detector.py: analyze_web_pages
\* ------------------------------------------------------------------------
MaxPages == 2

\* The score below which a documented page is reported, in hundredths.
IncompleteScore == 50

Urls == {<<"h","/","a">>, <<"h","/","b">>}

Titles == {Null, <<>>, <<"T">>}

\* doc_completeness_score, in hundredths
Scores == {0, 49, 50, 100}

PageContents == {<<>>, <<"x","y","z">>}

WebPages ==
    [url : Urls, title : Titles, content : PageContents, has_docs : BOOLEAN,
     doc_completeness_score : Scores]

\* A smaller pool of pages for the lists of more than one page.
PoolPages == {p \in WebPages : p.title = <<"T">> /\ p.content = <<"x","y","z">>}

PageLists == {<<p>> : p \in WebPages} \cup ListsUpTo(PoolPages, MaxPages)

\* page.title or page.url
TitleOrUrl(p) == IF Truthy(p.title) THEN p.title ELSE p.url

\* page.content[:500]
First500(text) == SubSeq(text, 1, IF Len(text) < 500 THEN Len(text) ELSE 500)

MissingApiDocsGap(gs, p) ==
    Append(gs, [id |-> GenerateGapId(gs),
                gap_type |-> "missing_api_docs",
                severity |-> "high",
                location |-> p.url,
                entity |-> NoEntity,
                description |-> <<"Page '", TitleOrUrl(p),
                                  "' has no documentation content">>,
                current_documentation |-> Null,
                context |-> [url |-> p.url, title |-> p.title,
                             completeness_score |-> p.doc_completeness_score]])

IncompletePageGap(gs, p) ==
    Append(gs, [id |-> GenerateGapId(gs),
                gap_type |-> "incomplete_docstring",
                severity |-> "medium",
                location |-> p.url,
                entity |-> NoEntity,
                description |-> <<"Page '", TitleOrUrl(p),
                                  "' has incomplete documentation (score: ",
                                  p.doc_completeness_score, ")">>,
                current_documentation |-> First500(p.content),
                context |-> [url |-> p.url, title |-> p.title,
                             completeness_score |-> p.doc_completeness_score]])

ScoreTooLow_Inclusive(score) == score <= IncompleteScore

\* page.doc_completeness_score < 0.5
ScoreTooLow(score) == score < IncompleteScore

RECURSIVE AnalyzePagesFrom(_, _, _)
\* The loop over the pages from position i on, gs being the gaps so far.
AnalyzePagesFrom(ps, i, gs) ==
    IF i > Len(ps) THEN gs
    ELSE IF ~ps[i].has_docs
    THEN AnalyzePagesFrom(ps, i + 1, MissingApiDocsGap(gs, ps[i]))
    ELSE IF ScoreTooLow(ps[i].doc_completeness_score)
    THEN AnalyzePagesFrom(ps, i + 1, IncompletePageGap(gs, ps[i]))
    ELSE AnalyzePagesFrom(ps, i + 1, gs)

AnalyzeWebPages(ps) == AnalyzePagesFrom(ps, 1, <<>>)

\* ------------------------------------------------------------------------
\* utils/cache.py: get_api_response and set_api_response step by step
\* ------------------------------------------------------------------------
\* The number of callers; each makes one call, and the calls may overlap.
MaxCallers == 2

\* The value caller c stores: every caller has a value of its own.
CallerValue(c) == <<"v", c>>

\* A caller that has not made its call yet, and one whose call has returned.
NoOperation == [kind |-> "idle"]

OperationReturned == [kind |-> "returned"]

\* The rows a store opened on an existing cache file may hold: for each key
\* none, or one written at clock reading 0 with a ttl of 0 hours.
StoredTables ==
    {{[key |-> k, value |-> CallerValue(0), expires_at |-> IsoFormat(ExpiryOf(0, 0))] : k \in ks} :
        ks \in SUBSET {"k1", "k2"}}

\* get_api_response has been called: the SELECT is yet to run.
GetCalled(k) == [kind |-> "get", key |-> k, pc |-> "select", row |-> NoRow]

\* set_api_response has been called at clock reading t: expires_at is
\* computed before the connection is opened, the INSERT is yet to run.
SetCalled(k, v, ttl_hours, t) ==
    [kind |-> "set", key |-> k, value |-> v, pc |-> "insert",
     expires_at |-> IsoFormat(ExpiryOf(t, ttl_hours))]

\* row = await cursor.fetchone()
GetFetched(op, table) == [op EXCEPT !.pc = "check", !.row = SelectByKey(table, op.key)]

\* The checks after fetchone: the operation goes on to the DELETE when the
\* row is there and the clock reading t is past its expiry, and returns
\* otherwise.
GetMustDelete(op, t) == op.row /= NoRow /\ IsExpired(t, op.row.expires_at)

\* ------------------------------------------------------------------------
\* generator/doc_generator.py: apply_improvements, and
\* utils/ast_rewriter.py: apply_improvements_batch
\* ------------------------------------------------------------------------
MaxImprovements == 2

\* The confidence below which an improvement is skipped, in hundredths.
MinApplyConfidence == 50

SourcePaths == {"a.py", "b.py"}

\* The condition of a source file: it can be rewritten; it does not exist;
\* it exists but cannot be written; it does not parse; it parses but holds
\* no definition matching the entity.
FileConditions == {"ok", "missing", "unwritable", "syntax_error", "no_match"}

\* DocumentationImprovement, reduced to what the apply steps read:
\* gap.entity (its file_path) and confidence_score, in hundredths.
ImprovementShapes ==
    [entity : {NoEntity} \cup [file_path : SourcePaths],
     confidence_score : {30, 50, 90}]

ImprovementLists == ListsUpTo(ImprovementShapes, MaxImprovements)

\* stats as initialised by both apply steps
NewStats(imps) ==
    [total |-> Len(imps), applied |-> 0, skipped |-> 0, failed |-> 0]

\* imp.confidence_score < 0.5
LowConfidence(imp) == imp.confidence_score < MinApplyConfidence

\* DocumentationGenerator._apply_improvement: TRUE when it returns, FALSE
\* when it raises (file not found, or the file cannot be written back).
ApplyImprovementReturns(imp, conditions) ==
    \/ imp.entity = NoEntity
    \/ conditions[imp.entity.file_path] \notin {"missing", "unwritable"}

RECURSIVE ApplyImprovementsFrom(_, _, _, _, _)
\* DocumentationGenerator.apply_improvements: the loop from position i on.
ApplyImprovementsFrom(imps, i, dry_run, conditions, st) ==
    IF i > Len(imps) THEN st
    ELSE IF LowConfidence(imps[i])
    THEN ApplyImprovementsFrom(imps, i + 1, dry_run, conditions,
                               [st EXCEPT !.skipped = @ + 1])
    ELSE IF dry_run \/ ApplyImprovementReturns(imps[i], conditions)
    THEN ApplyImprovementsFrom(imps, i + 1, dry_run, conditions,
                               [st EXCEPT !.applied = @ + 1])
    ELSE ApplyImprovementsFrom(imps, i + 1, dry_run, conditions,
                               [st EXCEPT !.failed = @ + 1])

ApplyImprovements(imps, dry_run, conditions) ==
    ApplyImprovementsFrom(imps, 1, dry_run, conditions, NewStats(imps))

\* ASTRewriter.apply_improvement: the value it returns.
RewriterApplyImprovement(imp, dry_run, conditions) ==
    /\ imp.entity /= NoEntity
    /\ conditions[imp.entity.file_path] \notin {"missing", "syntax_error", "no_match"}
    /\ (dry_run \/ conditions[imp.entity.file_path] /= "unwritable")

\* by_file: the improvements that have an entity, grouped by file, the files
\* in the order of their first improvement.
HasEntity(imp) == imp.entity /= NoEntity

FilesInOrder(imps) ==
    LET withEntity == SelectSeq(imps, HasEntity)
        firsts == {k \in 1..Len(withEntity) :
                      \A j \in 1..(k - 1) :
                          withEntity[j].entity.file_path /= withEntity[k].entity.file_path}
    IN  [n \in 1..Cardinality(firsts) |->
            withEntity[CHOOSE k \in firsts :
                          Cardinality({j \in firsts : j <= k}) = n].entity.file_path]

RECURSIVE Flatten(_)
Flatten(lists) ==
    IF lists = <<>> THEN <<>> ELSE Head(lists) \o Flatten(Tail(lists))

\* The improvements in the order the nested loops over by_file visit them.
ByFileOrder(imps) ==
    LET order == FilesInOrder(imps) IN
    Flatten([n \in 1..Len(order) |->
                SelectSeq(imps, LAMBDA imp :
                    HasEntity(imp) /\ imp.entity.file_path = order[n])])

RECURSIVE RewriterApplyFrom(_, _, _, _, _)
\* ASTRewriter.apply_improvements_batch: the loops from position i of the
\* visiting order on.
RewriterApplyFrom(visited, i, dry_run, conditions, st) ==
    IF i > Len(visited) THEN st
    ELSE IF LowConfidence(visited[i])
    THEN RewriterApplyFrom(visited, i + 1, dry_run, conditions,
                           [st EXCEPT !.skipped = @ + 1])
    ELSE IF RewriterApplyImprovement(visited[i], dry_run, conditions)
    THEN RewriterApplyFrom(visited, i + 1, dry_run, conditions,
                           [st EXCEPT !.applied = @ + 1])
    ELSE RewriterApplyFrom(visited, i + 1, dry_run, conditions,
                           [st EXCEPT !.failed = @ + 1])

ApplyImprovementsBatch(imps, dry_run, conditions) ==
    RewriterApplyFrom(ByFileOrder(imps), 1, dry_run, conditions, NewStats(imps))

\* ------------------------------------------------------------------------
\* generator/doc_generator.py: generate_improvements, _calculate_confidence
\* ------------------------------------------------------------------------
MaxImproveGaps == 1

\* A run of prose holding no keyword stands for that many characters.
Prose46 == "<46 characters of prose>"

Prose150 == "<150 characters of prose>"

CharWidth(c) ==
    IF c = Prose46 THEN 46 ELSE IF c = Prose150 THEN 150 ELSE 1

RECURSIVE TextWidth(_)
\* len(documentation)
TextWidth(s) == IF s = <<>> THEN 0 ELSE CharWidth(Head(s)) + TextWidth(Tail(s))

\* The length thresholds of _calculate_confidence.
ShortDocLength == 50

LongDocLength == 200

\* The parts a generated documentation text is made of, in their order.
DocumentParts ==
    << <<Prose46>>,
       <<Prose150>>,
       <<"A","r","g","s",":">>,
       <<"R","e","t","u","r","n","s",":">>,
       <<"E","x","a","m","p","l","e",":">> >>

RECURSIVE PartsFrom(_, _)
\* The text made of the parts whose position is in chosen, from position n on.
PartsFrom(chosen, n) ==
    IF n > Len(DocumentParts) THEN <<>>
    ELSE (IF n \in chosen THEN DocumentParts[n] ELSE <<>>) \o PartsFrom(chosen, n + 1)

\* The documentation texts the client may return.
Documents == {PartsFrom(chosen, 1) : chosen \in SUBSET (1..Len(DocumentParts))}

ConfidenceParamKeywords ==
    { <<"a","r","g","s",":">>,
      <<"p","a","r","a","m","e","t","e","r","s",":">>,
      <<":","p","a","r","a","m">> }

ConfidenceReturnKeywords ==
    { <<"r","e","t","u","r","n","s",":">>,
      <<"r","e","t","u","r","n",":">>,
      <<":","r","e","t","u","r","n">> }

ConfidenceExampleKeywords ==
    { <<"e","x","a","m","p","l","e",":">>,
      <<">",">",">">>,
      <<"u","s","a","g","e",":">> }

\* The additive heuristic of _calculate_confidence before its cap, in
\* hundredths: 0.5, +0.1, +0.1, +0.15, +0.15, +0.1.
ConfidenceSum(documentation, gap, config) ==
    LET doc_lower == Lower(documentation) IN
    50
    + (IF TextWidth(documentation) > ShortDocLength THEN 10 ELSE 0)
    + (IF TextWidth(documentation) > LongDocLength THEN 10 ELSE 0)
    + (IF /\ gap.entity /= NoEntity
          /\ gap.entity.parameters /= <<>>
          /\ ContainsAny(doc_lower, ConfidenceParamKeywords) THEN 15 ELSE 0)
    + (IF /\ gap.entity /= NoEntity
          /\ Truthy(gap.entity.return_type)
          /\ ContainsAny(doc_lower, ConfidenceReturnKeywords) THEN 15 ELSE 0)
    + (IF /\ config.include_examples
          /\ ContainsAny(doc_lower, ConfidenceExampleKeywords) THEN 10 ELSE 0)

CalculateConfidence_Uncapped(documentation, gap, config) ==
    ConfidenceSum(documentation, gap, config)

\* _calculate_confidence: min(score, 1.0), in hundredths
CalculateConfidence(documentation, gap, config) ==
    LET score == ConfidenceSum(documentation, gap, config) IN
    IF score < 100 THEN score ELSE 100

\* _generate_diff, reduced to the two texts it compares
GenerateDiff(old, new) == <<"--- current">> \o old \o <<"+++ improved">> \o new

\* The gaps generate_improvements is given: without an entity (a web page)
\* or with one, with and without parameters, return type and current
\* documentation.
ImproveGapShapes ==
    { [entity |-> NoEntity, current_documentation |-> Null],
      [entity |-> [parameters |-> <<[name |-> <<"x">>, type |-> <<"i","n","t">>]>>,
                   return_type |-> Null],
       current_documentation |-> <<"d">>],
      [entity |-> [parameters |-> <<>>, return_type |-> <<"i","n","t">>],
       current_documentation |-> Null],
      [entity |-> [parameters |-> <<[name |-> <<"x">>, type |-> <<"i","n","t">>]>>,
                   return_type |-> <<"i","n","t">>],
       current_documentation |-> <<"d">>] }

ImproveGapLists == ListsUpTo(ImproveGapShapes, MaxImproveGaps)

\* What self.client.generate_documentation does for one gap.
ClientOutcomes ==
    {Raised("APIError")} \cup {Returned(<<doc, GenericReasoning>>) : doc \in Documents}

\* DocumentationImprovement(...) for the gap at position i
NewImprovement(gap, i, outcome, config) ==
    [gap_id |-> i,
     gap |-> gap,
     improved_documentation |-> outcome.pair[1],
     diff |-> IF Truthy(gap.current_documentation)
              THEN GenerateDiff(gap.current_documentation, outcome.pair[1])
              ELSE Null,
     confidence_score |-> CalculateConfidence(outcome.pair[1], gap, config),
     reasoning |-> outcome.pair[2]]

RECURSIVE GenerateImprovementsFrom(_, _, _, _, _)
\* generate_improvements: the loop from position i on; a gap whose
\* generation raises is logged and left out.
GenerateImprovementsFrom(gaps, i, outcomes, config, done) ==
    IF i > Len(gaps) THEN done
    ELSE IF outcomes[i].kind = "raised"
    THEN GenerateImprovementsFrom(gaps, i + 1, outcomes, config, done)
    ELSE GenerateImprovementsFrom(gaps, i + 1, outcomes, config,
             Append(done, NewImprovement(gaps[i], i, outcomes[i], config)))

GenerateImprovements(gaps, outcomes, config) ==
    GenerateImprovementsFrom(gaps, 1, outcomes, config, <<>>)

\* ------------------------------------------------------------------------
\* utils/metrics.py: StateManager
\* ------------------------------------------------------------------------
MaxInstances == 2

MaxCheckpoints == 2

FileHashes == {"h1", "h2"}

EntityCounts == {1}

CheckpointData == {"d1", "d2"}

\* A file that does not exist, and a file holding the given text.
NoFile == [exists |-> FALSE]

FileHolding(text) == [exists |-> TRUE, text |-> text]

\* The text open(path, 'w') leaves when nothing is written after it.
EmptyText == <<>>

\* The dict _load_state builds when there is no state file. The timestamps
\* of entries and checkpoints are written and never read: left out.
FreshState ==
    [keys |-> {"processed_files", "last_run", "checkpoints"},
     processed_files |-> {}, checkpoints |-> <<>>]

\* The dict {} _load_state falls back to when the file cannot be loaded.
EmptyDict == [keys |-> {}, processed_files |-> {}, checkpoints |-> <<>>]

\* json.load of the state file's text: the empty text is no JSON document.
JsonLoad(text) ==
    IF text = EmptyText THEN Raised("JSONDecodeError") ELSE Returned(text[1])

\* _load_state
LoadState(file) ==
    IF file.exists
    THEN IF JsonLoad(file.text).kind = "ok" THEN JsonLoad(file.text).pair
         ELSE EmptyDict
    ELSE FreshState

\* _save_state: open(..., 'w') truncates the file, then json.dumps is given
\* the file as a second positional argument, which raises TypeError; the
\* handler logs it. The file is left empty.
SaveState(file, state) == FileHolding(EmptyText)

\* self.state['processed_files'][file_path] = {...}
MarkFileProcessed(state, file_path, file_hash, entity_count) ==
    IF "processed_files" \notin state.keys THEN Raised("KeyError")
    ELSE Returned([state EXCEPT !.processed_files =
             {r \in @ : r.path /= file_path}
             \cup {[path |-> file_path, hash |-> file_hash,
                    entity_count |-> entity_count]}])

\* is_file_processed
IsFileProcessed(state, file_path, current_hash) ==
    IF "processed_files" \notin state.keys THEN Raised("KeyError")
    ELSE IF ~\E r \in state.processed_files : r.path = file_path
    THEN Returned(FALSE)
    ELSE Returned((CHOOSE r \in state.processed_files : r.path = file_path).hash
                  = current_hash)

\* create_checkpoint, up to its _save_state
CreateCheckpoint(state, description, data) ==
    [state EXCEPT !.keys = @ \cup {"checkpoints"},
                  !.checkpoints = Append(@, [description |-> description,
                                             data |-> data])]

NoCheckpoint == [absent |-> TRUE]

\* get_last_checkpoint
GetLastCheckpoint(state) ==
    IF "checkpoints" \notin state.keys \/ state.checkpoints = <<>>
    THEN NoCheckpoint
    ELSE state.checkpoints[Len(state.checkpoints)]

\* clear_checkpoints, up to its _save_state
ClearCheckpoints(state) ==
    [state EXCEPT !.keys = @ \cup {"checkpoints"}, !.checkpoints = <<>>]

\* What calls have marked and created: per path the hash last marked, and
\* the checkpoints in the order of their creation.
NoHistory == [marked |-> {}, created |-> <<>>]

Marking(history, file_path, file_hash) ==
    [history EXCEPT !.marked = {m \in @ : m[1] /= file_path}
                               \cup {<<file_path, file_hash>>}]

Creating(history, checkpoint) ==
    [history EXCEPT !.created = Append(@, checkpoint)]

\* ------------------------------------------------------------------------
\* explorer/code_explorer_v2.py: CodeExplorerV2.explore
\* ------------------------------------------------------------------------
\* The root directory, holding the files of Paths in this order.
RootDirectory == "<directory>"

PathOrder == <<"a.py", "b.py">>

\* analyzer.analyze_file: the entities found in a file of the given bytes.
AnalyzeFile(bytes) ==
    IF bytes = "A" THEN <<[form |-> "object", of |-> "e1"]>> ELSE <<>>

\* [CodeEntity(**entity) for entity in cached]
EntitiesFromDicts(cached) ==
    [k \in 1..Len(cached) |-> [cached[k] EXCEPT !.form = "object"]]

\* _analyze_file_async for an existing file: how the call ends and the
\* analysis_cache table it leaves.
AnalyzeFileAsync(cache, table, path, bytes) ==
    LET entities == AnalyzeFile(bytes)
        \* from the analyzer to the return, on the table the lookup left
        Analyzed(tbl) ==
            IF cache /= "None" /\ entities /= <<>>
            THEN IF HasAttr(cache, "async_manager")
                 THEN [outcome |-> Returned(entities),
                       table |-> SetFileAnalysis(tbl, path, entities, bytes)]
                 ELSE [outcome |-> Returned(<<>>), table |-> tbl]
            ELSE [outcome |-> Returned(entities), table |-> tbl]
    IN  IF cache = "None" THEN Analyzed(table)
        ELSE IF ~HasAttr(cache, "async_manager")
        THEN [outcome |-> Raised(ErrNoAsyncManager), table |-> table]
        ELSE LET got == GetFileAnalysis(table, path, bytes) IN
             IF got.result /= Null /\ got.result /= <<>>
             THEN [outcome |-> Returned(EntitiesFromDicts(got.result)),
                   table |-> got.table]
             ELSE Analyzed(got.table)

RECURSIVE ExploreDirectoryFrom(_, _, _, _, _)
\* _explore_directory_async: the loop over files_to_analyze from position i
\* on; an exception of _analyze_file_async ends the loop and is logged.
ExploreDirectoryFrom(cache, table, fs, i, found) ==
    IF i > Len(PathOrder) THEN [outcome |-> Returned(found), table |-> table]
    ELSE IF fs[PathOrder[i]] = Absent
    THEN ExploreDirectoryFrom(cache, table, fs, i + 1, found)
    ELSE LET r == AnalyzeFileAsync(cache, table, PathOrder[i], fs[PathOrder[i]]) IN
         IF r.outcome.kind = "raised"
         THEN [outcome |-> Returned(found), table |-> r.table]
         ELSE ExploreDirectoryFrom(cache, r.table, fs, i + 1,
                                   found \o r.outcome.pair)

\* explore_async on a new CodeExplorerV2
ExploreAsync(cache, table, root, fs) ==
    IF root = RootDirectory THEN ExploreDirectoryFrom(cache, table, fs, 1, <<>>)
    ELSE IF fs[root] = Absent
    THEN [outcome |-> Raised("ValueError"), table |-> table]
    ELSE AnalyzeFileAsync(cache, table, root, fs[root])

\* ------------------------------------------------------------------------
\* integrations/claude_client.py: batch_generate
\* ------------------------------------------------------------------------
RECURSIVE BatchGenerateFrom(_, _, _)
\* The loop of batch_generate from position i on, given how
\* self.generate_documentation ends for each gap.
BatchGenerateFrom(generation, i, results) ==
    IF i > Len(generation) THEN results
    ELSE BatchGenerateFrom(generation, i + 1,
             Append(results,
                    IF generation[i].kind = "ok" THEN generation[i].pair
                    ELSE ErrorPlaceholder(generation[i].err)))

BatchGenerate(generation) == BatchGenerateFrom(generation, 1, <<>>)

\* ------------------------------------------------------------------------
\* explorer/web_explorer.py: WebExplorer
\* ------------------------------------------------------------------------
MaxDepth == 2

\* for link in links[:10]
MaxLinksFollowed == 10

\* urlparse(url): scheme, netloc and path of the URLs of the model.
SiteUrl(path) == [scheme |-> "https", netloc |-> "docs.example", path |-> path]

Url1 == SiteUrl("/")

Url2 == SiteUrl("/a")

Url3 == SiteUrl("/b")

Url4 == SiteUrl("/c")

UrlPdf == SiteUrl("/c.pdf")

UrlExternal == [scheme |-> "https", netloc |-> "other.example", path |-> "/"]

UrlMail == [scheme |-> "mailto", netloc |-> "", path |-> "me@docs.example"]

SiteUrls == {Url1, Url2, Url3, Url4}

\* The start URL of the run.
StartUrl == Url1

\* The sites explored: what each page links to (urljoin already applied).
Sites ==
    [SiteUrls -> {<<>>}] \cup
    {[u \in SiteUrls |->
        IF u = Url1 THEN l1 ELSE IF u = Url2 THEN l2
        ELSE IF u = Url3 THEN l3 ELSE l4] :
        l1 \in {<<Url2, Url3>>, <<Url2, Url2>>, <<Url1, UrlExternal>>},
        l2 \in {<<>>, <<Url4>>, <<Url3, Url1>>},
        l3 \in {<<>>, <<Url4>>, <<Url4, UrlMail>>},
        l4 \in {<<>>, <<Url1, UrlPdf>>}}

\* path.endswith(ext) for one of the file extensions
IsDownload(url) == url.path \in {"/c.pdf"}

\* _should_explore_url
ShouldExploreUrl(url, base_domain) ==
    /\ url.scheme \in {"http", "https"}
    /\ ~IsDownload(url)
    /\ url.netloc = base_domain

\* The links _analyze_page keeps of a page's anchors.
PageLinks(hrefs, follow_links, base_domain) ==
    IF follow_links
    THEN SelectSeq(hrefs, LAMBDA l : ShouldExploreUrl(l, base_domain))
    ELSE <<>>

\* links[:10]
FirstLinks(links) ==
    SubSeq(links, 1, IF Len(links) < MaxLinksFollowed THEN Len(links)
                     ELSE MaxLinksFollowed)

\* The coroutines _analyze_page creates for gather: one for each of the
\* first links that is not in visited_urls, duplicates included.
ChildTasks(links, visited, parent, depth) ==
    LET follow == SelectSeq(FirstLinks(links), LAMBDA l : l \notin visited) IN
    [k \in 1..Len(follow) |->
        [url |-> follow[k], depth |-> depth + 1, parent |-> parent,
         at |-> "created", loaded |-> FALSE]]

MarkVisited_Forgets(visited, url) == visited

\* self.visited_urls.add(url)
MarkVisited(visited, url) == visited \cup {url}

\* ------------------------------------------------------------------------
\* State
\* ------------------------------------------------------------------------
VARIABLES
    entities,        \* argument of the analyze_code_entities call
    gaps,            \* GapDetector.gaps
    gpc,             \* "ready": the call is pending; "done": it has returned
    bgaps,           \* batch: the gaps argument (the ids of the gaps)
    max_concurrent,  \* batch: the max_concurrent argument
    use_cache,       \* client: self.cache is set
    has_callback,    \* batch: a progress_callback was passed
    sem,             \* batch: value of the semaphore
    tstate,          \* batch: per task "queued", "in_flight" or "done"
    outcome,         \* batch: per task, how generate_documentation_async ended
    tresult,         \* batch: per task, the value process_gap returned
    order,           \* batch: the tasks in the order they completed
    cbcalls,         \* batch: the (index, total) calls made to the callback
    returned,        \* batch: the list batch_generate_async returned
    bpc,             \* batch: "off", "running" or "returned"
    now,             \* cache: the clock, in ticks
    api_cache,       \* cache: rows of table api_cache
    analysis_cache,  \* cache: rows of table analysis_cache
    files,           \* cache: the bytes of each file, or Absent
    last,            \* cache: the last operation called and what it returned
    lastSet,         \* cache: per key, the latest set_api_response
    expiredRead,     \* cache: per key, a get found the row expired since
    fileSet,         \* cache: per path, the latest set_file_analysis stored
    stale,           \* cache: per path, a get saw other bytes since then
    cpc,             \* cache: "off" or "on"
    kgap1,           \* key: a gap
    kgap2,           \* key: a gap built separately
    kconfig,         \* key: the client's GenerationConfig
    key1,            \* key: _generate_cache_key(kgap1)
    key2,            \* key: _generate_cache_key(kgap2)
    kpc,             \* key: "off", "ready" or "done"
    content,         \* parse: the response text handed to _parse_response
    parsed,          \* parse: what _parse_response returned or raised
    ppc,             \* parse: "off", "ready" or "done"
    gcache,          \* generate: the class of the V2 client's self.cache, or "None"
    gconfig,         \* generate: the clients' GenerationConfig
    gcalls,          \* generate: the generate calls made so far and how each ended
    gnpc,            \* generate: "off" or "on"
    pages,           \* web: the argument of the analyze_web_pages call
    web_gaps,        \* web: the list analyze_web_pages returned
    wpc,             \* web: "off", "ready" or "done"
    ops,             \* race: per caller, the cache operation it is in and its local values
    committed,       \* race: per key, the set_api_response that committed last
    acall,           \* apply: the apply call: the class it is made on and its arguments
    afiles,          \* apply: per source file, the condition it is in
    stats,           \* apply: the statistics the call returned
    apc,             \* apply: "off", "ready" or "done"
    igaps,           \* improve: the gaps handed to generate_improvements
    iconfig,         \* improve: the GenerationConfig of the generator
    improvements,    \* improve: self.improvements, the list the call returned
    ipc,             \* improve: "off", "ready" or "done"
    sm_state,        \* state manager: self.state of the current StateManager
    state_file,      \* state manager: the state file on disk
    sm_own,          \* state manager: what was marked and created on the current instance
    sm_durable,      \* state manager: what was marked and created on any instance
    sm_last,         \* state manager: the last call and what it did
    sm_instances,    \* state manager: how many StateManagers were constructed
    xroot,           \* explorer: config.target_path_or_url, a directory or one file
    explored,        \* explorer: per use_cache, what explore gave since the last edit
    wx_site,         \* web explorer: per URL of the site, the links its page holds
    wx_config,       \* web explorer: max_depth and follow_links of the config
    wx_tasks,        \* web explorer: the _explore_url coroutines and where each stands
    visited_urls,    \* web explorer: self.visited_urls
    wx_pages,        \* web explorer: self.pages
    wx_pc            \* web explorer: "off", "running" or "returned"

gapVars == <<entities, gaps, gpc>>

batchVars == <<bgaps, max_concurrent, use_cache, has_callback, sem, tstate,
               outcome, tresult, order, cbcalls, returned, bpc>>

cacheVars == <<now, api_cache, analysis_cache, files, last, lastSet,
               expiredRead, fileSet, stale, cpc>>

keyVars == <<kgap1, kgap2, kconfig, key1, key2, kpc>>

parseVars == <<content, parsed, ppc>>

genVars == <<gcache, gconfig, gcalls, gnpc>>

webVars == <<pages, web_gaps, wpc>>

raceVars == <<ops, committed>>

applyVars == <<acall, afiles, stats, apc>>

improveVars == <<igaps, iconfig, improvements, ipc>>

managerVars ==
    <<sm_state, state_file, sm_own, sm_durable, sm_last, sm_instances>>

exploreVars == <<xroot, explored>>

crawlVars == <<wx_site, wx_config, wx_tasks, visited_urls, wx_pages, wx_pc>>

\* The state of the later sections other than Parse's.
besideParseVars ==
    <<genVars, webVars, raceVars, applyVars, improveVars, managerVars,
      exploreVars, crawlVars>>

\* The state of the later sections other than Gen's.
besideGenVars ==
    <<parseVars, webVars, raceVars, applyVars, improveVars, managerVars,
      exploreVars, crawlVars>>

\* The state of the later sections other than Web's.
besideWebVars ==
    <<parseVars, genVars, raceVars, applyVars, improveVars, managerVars,
      exploreVars, crawlVars>>

\* The state of the later sections other than Race's.
besideRaceVars ==
    <<parseVars, genVars, webVars, applyVars, improveVars, managerVars,
      exploreVars, crawlVars>>

\* The state of the later sections other than Apply's.
besideApplyVars ==
    <<parseVars, genVars, webVars, raceVars, improveVars, managerVars,
      exploreVars, crawlVars>>

\* The state of the later sections other than Improve's.
besideImproveVars ==
    <<parseVars, genVars, webVars, raceVars, applyVars, managerVars,
      exploreVars, crawlVars>>

\* The state of the later sections other than Manager's.
besideManagerVars ==
    <<parseVars, genVars, webVars, raceVars, applyVars, improveVars,
      exploreVars, crawlVars>>

\* The state of the later sections other than Explore's.
besideExploreVars ==
    <<parseVars, genVars, webVars, raceVars, applyVars, improveVars,
      managerVars, crawlVars>>

\* The state of the later sections other than Crawl's.
besideCrawlVars ==
    <<parseVars, genVars, webVars, raceVars, applyVars, improveVars,
      managerVars, exploreVars>>

extVars ==
    <<parseVars, genVars, webVars, raceVars, applyVars, improveVars,
      managerVars, exploreVars, crawlVars>>

vars == <<gapVars, batchVars, cacheVars, keyVars, extVars>>

GapIdle == entities = <<>> /\ gaps = <<>> /\ gpc = "off"

BatchIdle ==
    /\ bgaps = <<>> /\ max_concurrent = 0 /\ use_cache = FALSE
    /\ has_callback = FALSE /\ sem = 0 /\ tstate = <<>> /\ outcome = <<>>
    /\ tresult = <<>> /\ order = <<>> /\ cbcalls = <<>> /\ returned = <<>>
    /\ bpc = "off"

CacheIdle ==
    /\ now = 0 /\ api_cache = {} /\ analysis_cache = {} /\ files = <<>>
    /\ last = <<>> /\ lastSet = <<>> /\ expiredRead = <<>> /\ fileSet = <<>>
    /\ stale = <<>> /\ cpc = "off"

KeyIdle ==
    /\ kgap1 = <<>> /\ kgap2 = <<>> /\ kconfig = <<>> /\ key1 = <<>>
    /\ key2 = <<>> /\ kpc = "off"

ParseIdle == content = <<>> /\ parsed = <<>> /\ ppc = "off"

GenIdle == gcache = "None" /\ gconfig = <<>> /\ gcalls = <<>> /\ gnpc = "off"

WebIdle == pages = <<>> /\ web_gaps = <<>> /\ wpc = "off"

RaceIdle == ops = <<>> /\ committed = <<>>

ApplyIdle == acall = <<>> /\ afiles = <<>> /\ stats = <<>> /\ apc = "off"

ImproveIdle == igaps = <<>> /\ iconfig = <<>> /\ improvements = <<>> /\ ipc = "off"

ManagerIdle == sm_state = <<>> /\ state_file = <<>> /\ sm_own = <<>> /\ sm_durable = <<>> /\ sm_last = <<>> /\ sm_instances = 0

ExploreIdle == xroot = "<none>" /\ explored = <<>>

CrawlIdle == wx_site = <<>> /\ wx_config = <<>> /\ wx_tasks = <<>> /\ visited_urls = {} /\ wx_pages = <<>> /\ wx_pc = "off"

\* The operations of the later sections other than Parse are idle.
BesideParseIdle == GenIdle /\ WebIdle /\ RaceIdle /\ ApplyIdle /\ ImproveIdle /\ ManagerIdle /\ ExploreIdle /\ CrawlIdle

\* The operations of the later sections other than Gen are idle.
BesideGenIdle == ParseIdle /\ WebIdle /\ RaceIdle /\ ApplyIdle /\ ImproveIdle /\ ManagerIdle /\ ExploreIdle /\ CrawlIdle

\* The operations of the later sections other than Web are idle.
BesideWebIdle == ParseIdle /\ GenIdle /\ RaceIdle /\ ApplyIdle /\ ImproveIdle /\ ManagerIdle /\ ExploreIdle /\ CrawlIdle

\* The operations of the later sections other than Race are idle.
BesideRaceIdle == ParseIdle /\ GenIdle /\ WebIdle /\ ApplyIdle /\ ImproveIdle /\ ManagerIdle /\ ExploreIdle /\ CrawlIdle

\* The operations of the later sections other than Apply are idle.
BesideApplyIdle == ParseIdle /\ GenIdle /\ WebIdle /\ RaceIdle /\ ImproveIdle /\ ManagerIdle /\ ExploreIdle /\ CrawlIdle

\* The operations of the later sections other than Improve are idle.
BesideImproveIdle == ParseIdle /\ GenIdle /\ WebIdle /\ RaceIdle /\ ApplyIdle /\ ManagerIdle /\ ExploreIdle /\ CrawlIdle

\* The operations of the later sections other than Manager are idle.
BesideManagerIdle == ParseIdle /\ GenIdle /\ WebIdle /\ RaceIdle /\ ApplyIdle /\ ImproveIdle /\ ExploreIdle /\ CrawlIdle

\* The operations of the later sections other than Explore are idle.
BesideExploreIdle == ParseIdle /\ GenIdle /\ WebIdle /\ RaceIdle /\ ApplyIdle /\ ImproveIdle /\ ManagerIdle /\ CrawlIdle

\* The operations of the later sections other than Crawl are idle.
BesideCrawlIdle == ParseIdle /\ GenIdle /\ WebIdle /\ RaceIdle /\ ApplyIdle /\ ImproveIdle /\ ManagerIdle /\ ExploreIdle

ExtIdle == ParseIdle /\ GenIdle /\ WebIdle /\ RaceIdle /\ ApplyIdle /\ ImproveIdle /\ ManagerIdle /\ ExploreIdle /\ CrawlIdle

\* ------------------------------------------------------------------------
\* Gap detector: one analyze_code_entities call on a fresh detector
\* ------------------------------------------------------------------------
InitGap ==
    /\ ExtIdle
    /\ entities \in EntityLists
    /\ gaps = <<>>
    /\ gpc = "ready"
    /\ BatchIdle
    /\ CacheIdle
    /\ KeyIdle

AnalyzeCall ==
    /\ gpc = "ready"
    /\ gaps' = AnalyzeCodeEntities(entities)
    /\ gpc' = "done"
    /\ UNCHANGED <<extVars, entities, batchVars, cacheVars, keyVars>>

NextGap == AnalyzeCall

SpecGap == InitGap /\ [][NextGap]_vars

\* ------------------------------------------------------------------------
\* Batch orchestrator: one batch_generate_async call.  The tasks are
\* coroutines of one event loop: a step runs one task from one suspension
\* point (the semaphore, the LLM call) to the next.
\* ------------------------------------------------------------------------
Tasks == 1..Len(bgaps)

InFlight == {i \in Tasks : tstate[i] = "in_flight"}

InitBatch ==
    /\ ExtIdle
    /\ GapIdle
    /\ CacheIdle
    /\ KeyIdle
    /\ \E n \in 0..MaxGaps : bgaps = [i \in 1..n |-> i]
    /\ max_concurrent \in 0..MaxConcurrent
    /\ use_cache \in BOOLEAN
    /\ has_callback \in BOOLEAN
    /\ sem = max_concurrent
    /\ tstate = [i \in Tasks |-> "queued"]
    /\ outcome = [i \in Tasks |-> NoOutcome]
    /\ tresult = [i \in Tasks |-> <<>>]
    /\ order = <<>>
    /\ cbcalls = <<>>
    /\ returned = <<>>
    /\ bpc = "running"

Finish(i, out, cbRaises) ==
    /\ tstate' = [tstate EXCEPT ![i] = "done"]
    /\ outcome' = [outcome EXCEPT ![i] = out]
    /\ tresult' = [tresult EXCEPT
                     ![i] = ProcessGapResult(i - 1, out, has_callback, cbRaises)]
    /\ cbcalls' = IF out.kind = "ok" /\ has_callback
                  THEN Append(cbcalls, <<i - 1, Len(bgaps)>>)
                  ELSE cbcalls
    /\ order' = Append(order, i)

\* With caching on, generate_documentation_async raises AttributeError at
\* self.cache.async_manager: the admitted task fails and releases the
\* semaphore.
ProcessGapCacheError(i) ==
    /\ bpc = "running" /\ use_cache
    /\ tstate[i] = "in_flight"
    /\ Finish(i, Raised(ErrNoAsyncManager), FALSE)
    /\ sem' = sem + 1
    /\ UNCHANGED <<extVars, gapVars, cacheVars, keyVars, bgaps, max_concurrent, use_cache, has_callback,
                   returned, bpc>>

\* async with semaphore: the task takes a slot of the semaphore.
Admit(i) ==
    /\ bpc = "running"
    /\ tstate[i] = "queued"
    /\ SemaphoreAvailable(sem)
    /\ sem' = sem - 1
    /\ tstate' = [tstate EXCEPT ![i] = "in_flight"]
    /\ UNCHANGED <<extVars, gapVars, cacheVars, keyVars, bgaps, max_concurrent, use_cache, has_callback,
                   outcome, tresult, order, cbcalls, returned, bpc>>

\* The LLM call returns and the response parses to `pair`; the callback, if
\* any, is called and returns or raises; the semaphore is released.
GenerationSucceeds(i) ==
    /\ bpc = "running" /\ ~use_cache
    /\ tstate[i] = "in_flight"
    /\ \E pair \in GenPairs, cbRaises \in BOOLEAN :
          /\ (cbRaises => has_callback)
          /\ Finish(i, Returned(pair), cbRaises)
    /\ sem' = sem + 1
    /\ UNCHANGED <<extVars, gapVars, cacheVars, keyVars, bgaps, max_concurrent, use_cache, has_callback,
                   returned, bpc>>

GenerationFails_KeepsSlot(i) ==
    /\ bpc = "running" /\ ~use_cache
    /\ tstate[i] = "in_flight"
    /\ \E err \in ApiErrors : Finish(i, Raised(err), FALSE)
    /\ UNCHANGED <<extVars, gapVars, cacheVars, keyVars, bgaps, max_concurrent, use_cache, has_callback,
                   sem, returned, bpc>>

\* The LLM call (or the parsing of its response) raises; process_gap
\* catches it and the semaphore is released.
GenerationFails(i) ==
    /\ bpc = "running" /\ ~use_cache
    /\ tstate[i] = "in_flight"
    /\ \E err \in ApiErrors : Finish(i, Raised(err), FALSE)
    /\ sem' = sem + 1
    /\ UNCHANGED <<extVars, gapVars, cacheVars, keyVars, bgaps, max_concurrent, use_cache, has_callback,
                   returned, bpc>>

\* asyncio.gather returns once every task is done; sort and return.
GatherReturns ==
    /\ bpc = "running"
    /\ \A i \in Tasks : tstate[i] = "done"
    /\ returned' = BatchReturn([i \in Tasks |-> tresult[i]])
    /\ bpc' = "returned"
    /\ UNCHANGED <<extVars, gapVars, cacheVars, keyVars, bgaps, max_concurrent, use_cache, has_callback,
                   sem, tstate, outcome, tresult, order, cbcalls>>

NextBatch ==
    \/ \E i \in Tasks : Admit(i)
    \/ \E i \in Tasks : ProcessGapCacheError(i)
    \/ \E i \in Tasks : GenerationSucceeds(i)
    \/ \E i \in Tasks : GenerationFails(i)
    \/ GatherReturns

SpecBatch == InitBatch /\ [][NextBatch]_vars

\* The event loop runs a task whenever one can run, and every LLM call
\* eventually returns or fails: as long as a step of the batch is possible,
\* one is taken.
BatchFairness == WF_vars(NextBatch)

\* The batches whose termination is checked.
InitBatchLive == InitBatch /\ Len(bgaps) <= MaxLiveGaps

SpecBatchLive == InitBatchLive /\ [][NextBatch]_vars /\ BatchFairness

\* ------------------------------------------------------------------------
\* Cache store: operations of one CacheManager called one after the other
\* (each runs to completion, as through SyncCacheManager).  SpecCache runs
\* the API-response namespace while the clock advances; SpecFileCache runs
\* the file-analysis namespace while the files are edited.
\* ------------------------------------------------------------------------
Keys == {"k1", "k2"}

Values == {"v1", "v2"}

TTLs == 0..MaxTTL

Paths == {"a.py", "b.py"}

Contents == {"A", "B"}

EntityItems == {[form |-> "object", of |-> "e1"], [form |-> "dict", of |-> "e2"]}

AnalysisResults == {<<>>} \cup {<<e>> : e \in EntityItems}

NoSet == [set |-> FALSE]

InitCache ==
    /\ ExtIdle
    /\ GapIdle
    /\ BatchIdle
    /\ KeyIdle
    /\ now = 0
    /\ api_cache = {}
    /\ analysis_cache = {}
    /\ files = [p \in Paths |-> Absent]
    /\ last = [op |-> "none"]
    /\ lastSet = [k \in Keys |-> NoSet]
    /\ expiredRead = [k \in Keys |-> FALSE]
    /\ fileSet = [p \in Paths |-> NoSet]
    /\ stale = [p \in Paths |-> FALSE]
    /\ cpc = "on"

Tick ==
    /\ cpc = "on"
    /\ now < MaxTime
    /\ now' = now + 1
    /\ UNCHANGED <<extVars, gapVars, batchVars, keyVars, api_cache, analysis_cache, files, last,
                   lastSet, expiredRead, fileSet, stale, cpc>>

SetApiResponseCall(k, v, ttl) ==
    /\ cpc = "on"
    /\ api_cache' = SetApiResponse(api_cache, k, v, ttl, now)
    /\ last' = [op |-> "set_api_response", key |-> k, at |-> now]
    /\ lastSet' = [lastSet EXCEPT ![k] =
                      [set |-> TRUE, value |-> v, at |-> now, ttl |-> ttl,
                       replaced |-> SelectByKey(api_cache, k) /= NoRow]]
    /\ expiredRead' = [expiredRead EXCEPT ![k] = FALSE]
    /\ UNCHANGED <<extVars, gapVars, batchVars, keyVars, now, analysis_cache, files, fileSet,
                   stale, cpc>>

GetApiResponseCall(k) ==
    /\ cpc = "on"
    /\ LET r == GetApiResponse(api_cache, k, now) IN
          /\ api_cache' = r.table
          /\ last' = [op |-> "get_api_response", key |-> k, at |-> now,
                      found |-> SelectByKey(api_cache, k), result |-> r.result]
    /\ expiredRead' = [expiredRead EXCEPT ![k] =
                          @ \/ \E r \in api_cache :
                                  r.key = k /\ FromIsoFormat(r.expires_at) < now]
    /\ UNCHANGED <<extVars, gapVars, batchVars, keyVars, now, analysis_cache, files, lastSet,
                   fileSet, stale, cpc>>

SetFileAnalysisCall(p, ents) ==
    /\ cpc = "on"
    /\ analysis_cache' = SetFileAnalysis(analysis_cache, p, ents, files[p])
    /\ last' = [op |-> "set_file_analysis", key |-> p, at |-> now]
    /\ IF files[p] = Absent
       THEN UNCHANGED <<fileSet, stale>>
       ELSE /\ fileSet' = [fileSet EXCEPT ![p] = [set |-> TRUE,
                                                  bytes |-> files[p],
                                                  entities |-> ents]]
            /\ stale' = [stale EXCEPT ![p] = FALSE]
    /\ UNCHANGED <<extVars, gapVars, batchVars, keyVars, now, api_cache, files, lastSet,
                   expiredRead, cpc>>

GetFileAnalysisCall(p) ==
    /\ cpc = "on"
    /\ LET r == GetFileAnalysis(analysis_cache, p, files[p]) IN
          /\ analysis_cache' = r.table
          /\ last' = [op |-> "get_file_analysis", key |-> p, at |-> now,
                      bytes |-> files[p], result |-> r.result]
    /\ stale' = [stale EXCEPT ![p] =
                    @ \/ (/\ fileSet[p].set /\ files[p] /= Absent
                          /\ files[p] /= fileSet[p].bytes)]
    /\ UNCHANGED <<extVars, gapVars, batchVars, keyVars, now, api_cache, files, lastSet,
                   expiredRead, fileSet, cpc>>

\* The file is written, created or removed by its owner.
EditFile(p, bytes) ==
    /\ cpc = "on"
    /\ files[p] /= bytes
    /\ files' = [files EXCEPT ![p] = bytes]
    /\ UNCHANGED <<extVars, gapVars, batchVars, keyVars, now, api_cache, analysis_cache, last,
                   lastSet, expiredRead, fileSet, stale, cpc>>

ClearExpiredCall ==
    /\ cpc = "on"
    /\ api_cache' = api_cache \ ExpiredRows(api_cache, now)
    /\ last' = [op |-> "clear_expired", at |-> now,
                result |-> Cardinality(ExpiredRows(api_cache, now))]
    /\ UNCHANGED <<extVars, gapVars, batchVars, keyVars, now, analysis_cache, files, lastSet,
                   expiredRead, fileSet, stale, cpc>>

ClearAllCall ==
    /\ cpc = "on"
    /\ api_cache' = {}
    /\ analysis_cache' = {}
    /\ last' = [op |-> "clear_all", at |-> now]
    /\ lastSet' = [k \in Keys |-> NoSet]
    /\ fileSet' = [p \in Paths |-> NoSet]
    /\ stale' = [p \in Paths |-> FALSE]
    /\ UNCHANGED <<extVars, gapVars, batchVars, keyVars, now, files, expiredRead, cpc>>

NextCache ==
    \/ Tick
    \/ \E k \in Keys, v \in Values, ttl \in TTLs : SetApiResponseCall(k, v, ttl)
    \/ \E k \in Keys : GetApiResponseCall(k)
    \/ ClearExpiredCall
    \/ ClearAllCall

SpecCache == InitCache /\ [][NextCache]_vars

InitFileCache ==
    /\ ExtIdle
    /\ GapIdle
    /\ BatchIdle
    /\ KeyIdle
    /\ now = 0
    /\ api_cache = {}
    /\ analysis_cache = {}
    /\ files \in [Paths -> Contents \cup {Absent}]
    /\ last = [op |-> "none"]
    /\ lastSet = [k \in Keys |-> NoSet]
    /\ expiredRead = [k \in Keys |-> FALSE]
    /\ fileSet = [p \in Paths |-> NoSet]
    /\ stale = [p \in Paths |-> FALSE]
    /\ cpc = "on"

NextFileCache ==
    \/ \E p \in Paths, ents \in AnalysisResults : SetFileAnalysisCall(p, ents)
    \/ \E p \in Paths : GetFileAnalysisCall(p)
    \/ \E p \in Paths, bytes \in Contents \cup {Absent} : EditFile(p, bytes)
    \/ ClearAllCall

SpecFileCache == InitFileCache /\ [][NextFileCache]_vars

\* ------------------------------------------------------------------------
\* Cache key: one client computes the key of two gaps
\* ------------------------------------------------------------------------
\* The fields of a gap that id, description, severity, current documentation
\* and context are not.
KeyFieldsDiffering(g1, g2) ==
    {f \in {"gap_type", "location", "entity"} : g1[f] /= g2[f]}

InitKey ==
    /\ ExtIdle
    /\ GapIdle
    /\ BatchIdle
    /\ CacheIdle
    /\ kgap1 \in {g \in KeyGaps :
                    /\ g.id = <<"u","u","i","d","-","1">>
                    /\ g.severity = "critical"
                    /\ g.description = "has no docstring"
                    /\ g.current_documentation = Null
                    /\ g.context = [entity_type |-> "function"]}
    /\ kgap2 \in {g \in KeyGaps : Cardinality(KeyFieldsDiffering(kgap1, g)) <= 1}
    /\ kconfig \in GenerationConfigs
    /\ key1 = <<>>
    /\ key2 = <<>>
    /\ kpc = "ready"

ComputeKeys ==
    /\ kpc = "ready"
    /\ key1' = GenerateCacheKey(kgap1, kconfig)
    /\ key2' = GenerateCacheKey(kgap2, kconfig)
    /\ kpc' = "done"
    /\ UNCHANGED <<extVars, gapVars, batchVars, cacheVars, kgap1, kgap2, kconfig>>

NextKey == ComputeKeys

SpecKey == InitKey /\ [][NextKey]_vars

\* ------------------------------------------------------------------------
\* Response parser: one _parse_response call
\* ------------------------------------------------------------------------
InitParse ==
    /\ GapIdle
    /\ BatchIdle
    /\ CacheIdle
    /\ KeyIdle
    /\ BesideParseIdle
    /\ content \in Responses
    /\ parsed = <<>>
    /\ ppc = "ready"

ParseCall ==
    /\ ppc = "ready"
    /\ parsed' = ParseResponse(content)
    /\ ppc' = "done"
    /\ UNCHANGED <<gapVars, batchVars, cacheVars, keyVars, besideParseVars,
                   content>>

NextParse == ParseCall

SpecParse == InitParse /\ [][NextParse]_vars

\* ------------------------------------------------------------------------
\* Single-gap generation: a ClaudeClient and a ClaudeClientV2 built with the
\* same configuration serve generate calls one after the other
\* ------------------------------------------------------------------------
InitGen ==
    /\ GapIdle
    /\ BatchIdle
    /\ KeyIdle
    /\ BesideGenIdle
    /\ now = 0
    /\ api_cache = {}
    /\ analysis_cache = {}
    /\ files = <<>>
    /\ last = <<>>
    /\ lastSet = <<>>
    /\ expiredRead = <<>>
    /\ fileSet = <<>>
    /\ stale = <<>>
    /\ cpc = "off"
    /\ gcache \in {CacheObject(use) : use \in BOOLEAN}
    /\ gconfig = DefaultConfig
    /\ gcalls = <<>>
    /\ gnpc = "on"

GenerateDocumentationCall(gap, llm) ==
    /\ gnpc = "on"
    /\ Len(gcalls) < MaxCalls
    /\ LET r == GenerateDocumentation(gap, llm) IN
          gcalls' = Append(gcalls,
              [client |-> "ClaudeClient", gap |-> gap, llm |-> llm,
               llm_calls |-> r.llm_calls, outcome |-> r.outcome])
    /\ UNCHANGED <<gapVars, batchVars, cacheVars, keyVars, besideGenVars,
                   gcache, gconfig, gnpc>>

GenerateDocumentationAsyncCall(gap, llm) ==
    /\ gnpc = "on"
    /\ Len(gcalls) < MaxCalls
    /\ LET r == GenerateDocumentationAsync(gcache, api_cache, gap, gconfig,
                                           llm, now) IN
          /\ gcalls' = Append(gcalls,
                 [client |-> "ClaudeClientV2", gap |-> gap, llm |-> llm,
                  llm_calls |-> r.llm_calls, outcome |-> r.outcome])
          /\ api_cache' = r.table
    /\ UNCHANGED <<gapVars, batchVars, keyVars, besideGenVars, now,
                   analysis_cache, files, last, lastSet, expiredRead,
                   fileSet, stale, cpc, gcache, gconfig, gnpc>>

NextGen ==
    \/ \E gap \in GenGaps, llm \in LlmBehaviours :
          GenerateDocumentationCall(gap, llm)
    \/ \E gap \in GenGaps, llm \in LlmBehaviours :
          GenerateDocumentationAsyncCall(gap, llm)

SpecGen == InitGen /\ [][NextGen]_vars

\* ------------------------------------------------------------------------
\* Gap detector: one analyze_web_pages call
\* ------------------------------------------------------------------------
InitWeb ==
    /\ GapIdle
    /\ BatchIdle
    /\ CacheIdle
    /\ KeyIdle
    /\ BesideWebIdle
    /\ pages \in PageLists
    /\ web_gaps = <<>>
    /\ wpc = "ready"

AnalyzeWebPagesCall ==
    /\ wpc = "ready"
    /\ web_gaps' = AnalyzeWebPages(pages)
    /\ wpc' = "done"
    /\ UNCHANGED <<gapVars, batchVars, cacheVars, keyVars, besideWebVars,
                   pages>>

NextWeb == AnalyzeWebPagesCall

SpecWeb == InitWeb /\ [][NextWeb]_vars

\* ------------------------------------------------------------------------
\* Cache store with both namespaces in use: responses and file analyses are
\* stored while the clock advances, and the store is cleared
\* ------------------------------------------------------------------------
InitStore ==
    /\ ExtIdle
    /\ GapIdle
    /\ BatchIdle
    /\ KeyIdle
    /\ now = 0
    /\ api_cache = {}
    /\ analysis_cache = {}
    /\ files = [p \in Paths |-> "A"]
    /\ last = [op |-> "none"]
    /\ lastSet = [k \in Keys |-> NoSet]
    /\ expiredRead = [k \in Keys |-> FALSE]
    /\ fileSet = [p \in Paths |-> NoSet]
    /\ stale = [p \in Paths |-> FALSE]
    /\ cpc = "on"

NextStore ==
    \/ Tick
    \/ \E k \in Keys, v \in Values, ttl \in TTLs : SetApiResponseCall(k, v, ttl)
    \/ \E p \in Paths : SetFileAnalysisCall(p, <<>>)
    \/ ClearExpiredCall
    \/ ClearAllCall

SpecStore == InitStore /\ [][NextStore]_vars

\* ------------------------------------------------------------------------
\* Cache store under overlapping calls: every caller runs get_api_response
\* or set_api_response once, on a connection of its own; a step is what one
\* connection does between two awaits (SELECT and fetch; the checks; DELETE
\* and commit; INSERT OR REPLACE and commit)
\* ------------------------------------------------------------------------
Callers == 1..MaxCallers

InitRace ==
    /\ GapIdle
    /\ BatchIdle
    /\ KeyIdle
    /\ BesideRaceIdle
    /\ now = 0
    /\ api_cache \in StoredTables
    /\ analysis_cache = {}
    /\ files = [p \in Paths |-> Absent]
    /\ last = [op |-> "none"]
    /\ lastSet = [k \in Keys |-> NoSet]
    /\ expiredRead = [k \in Keys |-> FALSE]
    /\ fileSet = [p \in Paths |-> NoSet]
    /\ stale = [p \in Paths |-> FALSE]
    /\ cpc = "on"
    /\ ops = [c \in Callers |-> NoOperation]
    /\ committed = [k \in Keys |-> NoSet]

\* From the call to the fetched row: nothing is read before the SELECT.
GetCall(c, k) ==
    /\ ops[c] = NoOperation
    /\ ops' = [ops EXCEPT ![c] = GetFetched(GetCalled(k), api_cache)]
    /\ UNCHANGED <<gapVars, batchVars, cacheVars, keyVars, besideRaceVars,
                   committed>>

SetCall(c, k, ttl) ==
    /\ ops[c] = NoOperation
    /\ ops' = [ops EXCEPT ![c] = SetCalled(k, CallerValue(c), ttl, now)]
    /\ UNCHANGED <<gapVars, batchVars, cacheVars, keyVars, besideRaceVars,
                   committed>>

GetCheck(c) ==
    /\ ops[c].kind = "get" /\ ops[c].pc = "check"
    /\ ops' = [ops EXCEPT ![c] =
                  IF GetMustDelete(ops[c], now)
                  THEN [ops[c] EXCEPT !.pc = "delete"]
                  ELSE OperationReturned]
    /\ UNCHANGED <<gapVars, batchVars, cacheVars, keyVars, besideRaceVars,
                   committed>>

GetDelete(c) ==
    /\ ops[c].kind = "get" /\ ops[c].pc = "delete"
    /\ api_cache' = DeleteByKey(api_cache, ops[c].key)
    /\ ops' = [ops EXCEPT ![c] = OperationReturned]
    /\ UNCHANGED <<gapVars, batchVars, keyVars, besideRaceVars, now,
                   analysis_cache, files, last, lastSet, expiredRead,
                   fileSet, stale, cpc, committed>>

SetInsert(c) ==
    /\ ops[c].kind = "set" /\ ops[c].pc = "insert"
    /\ api_cache' = InsertOrReplace(api_cache,
                        [key |-> ops[c].key, value |-> ops[c].value,
                         expires_at |-> ops[c].expires_at])
    /\ committed' = [committed EXCEPT ![ops[c].key] =
                       [set |-> TRUE, value |-> ops[c].value,
                        expires |-> FromIsoFormat(ops[c].expires_at)]]
    /\ ops' = [ops EXCEPT ![c] = OperationReturned]
    /\ UNCHANGED <<gapVars, batchVars, keyVars, besideRaceVars, now,
                   analysis_cache, files, last, lastSet, expiredRead,
                   fileSet, stale, cpc>>

\* The clock advances while operations are under way.
RaceTick ==
    /\ ops /= <<>>
    /\ now < MaxTime
    /\ now' = now + 1
    /\ UNCHANGED <<gapVars, batchVars, keyVars, extVars, api_cache,
                   analysis_cache, files, last, lastSet, expiredRead,
                   fileSet, stale, cpc>>

NextRace ==
    \/ \E c \in Callers, k \in Keys : GetCall(c, k)
    \/ \E c \in Callers, k \in Keys, ttl \in TTLs : SetCall(c, k, ttl)
    \/ \E c \in Callers : GetCheck(c)
    \/ \E c \in Callers : GetDelete(c)
    \/ \E c \in Callers : SetInsert(c)
    \/ RaceTick

SpecRace == InitRace /\ [][NextRace]_vars

\* ------------------------------------------------------------------------
\* Apply step: one apply_improvements or apply_improvements_batch call
\* ------------------------------------------------------------------------
InitApply ==
    /\ GapIdle
    /\ BatchIdle
    /\ CacheIdle
    /\ KeyIdle
    /\ BesideApplyIdle
    /\ acall \in [on : {"DocumentationGenerator", "ASTRewriter"},
                  improvements : ImprovementLists, dry_run : BOOLEAN]
    /\ afiles \in [SourcePaths -> FileConditions]
    /\ stats = <<>>
    /\ apc = "ready"

ApplyImprovementsCall ==
    /\ apc = "ready"
    /\ acall.on = "DocumentationGenerator"
    /\ stats' = ApplyImprovements(acall.improvements, acall.dry_run, afiles)
    /\ apc' = "done"
    /\ UNCHANGED <<gapVars, batchVars, cacheVars, keyVars, besideApplyVars,
                   acall, afiles>>

ApplyImprovementsBatchCall ==
    /\ apc = "ready"
    /\ acall.on = "ASTRewriter"
    /\ stats' = ApplyImprovementsBatch(acall.improvements, acall.dry_run, afiles)
    /\ apc' = "done"
    /\ UNCHANGED <<gapVars, batchVars, cacheVars, keyVars, besideApplyVars,
                   acall, afiles>>

NextApply ==
    \/ ApplyImprovementsCall
    \/ ApplyImprovementsBatchCall

SpecApply == InitApply /\ [][NextApply]_vars

\* ------------------------------------------------------------------------
\* Generator: one generate_improvements call
\* ------------------------------------------------------------------------
InitImprove ==
    /\ GapIdle
    /\ BatchIdle
    /\ CacheIdle
    /\ KeyIdle
    /\ BesideImproveIdle
    /\ igaps \in ImproveGapLists
    /\ iconfig \in [include_examples : BOOLEAN]
    /\ improvements = <<>>
    /\ ipc = "ready"

GenerateImprovementsCall ==
    /\ ipc = "ready"
    /\ \E outcomes \in [1..Len(igaps) -> ClientOutcomes] :
          improvements' = GenerateImprovements(igaps, outcomes, iconfig)
    /\ ipc' = "done"
    /\ UNCHANGED <<gapVars, batchVars, cacheVars, keyVars, besideImproveVars,
                   igaps, iconfig>>

NextImprove == GenerateImprovementsCall

SpecImprove == InitImprove /\ [][NextImprove]_vars

\* ------------------------------------------------------------------------
\* State manager: StateManagers constructed one after another on one state
\* file, and the calls made on the current one
\* ------------------------------------------------------------------------
InitManager ==
    /\ GapIdle
    /\ BatchIdle
    /\ CacheIdle
    /\ KeyIdle
    /\ BesideManagerIdle
    /\ state_file = NoFile
    /\ sm_state = LoadState(NoFile)
    /\ sm_own = NoHistory
    /\ sm_durable = NoHistory
    /\ sm_last = [op |-> "__init__", outcome |-> Returned(<<>>)]
    /\ sm_instances = 1

\* StateManager(state_file): a new instance replaces the current one.
Construct ==
    /\ sm_instances < MaxInstances
    /\ sm_instances' = sm_instances + 1
    /\ sm_state' = LoadState(state_file)
    /\ sm_own' = NoHistory
    /\ sm_last' = [op |-> "__init__", outcome |-> Returned(<<>>)]
    /\ UNCHANGED <<gapVars, batchVars, cacheVars, keyVars, besideManagerVars,
                   state_file, sm_durable>>

MarkFileProcessedCall(p, h, n) ==
    LET done == MarkFileProcessed(sm_state, p, h, n) IN
    /\ sm_last' = [op |-> "mark_file_processed",
                   outcome |-> IF done.kind = "ok" THEN Returned(<<>>) ELSE done]
    /\ IF done.kind = "ok"
       THEN /\ sm_state' = done.pair
            /\ state_file' = SaveState(state_file, done.pair)
            /\ sm_own' = Marking(sm_own, p, h)
            /\ sm_durable' = Marking(sm_durable, p, h)
       ELSE UNCHANGED <<sm_state, state_file, sm_own, sm_durable>>
    /\ UNCHANGED <<gapVars, batchVars, cacheVars, keyVars, besideManagerVars,
                   sm_instances>>

IsFileProcessedCall(p, h) ==
    /\ sm_last' = [op |-> "is_file_processed",
                   outcome |-> IsFileProcessed(sm_state, p, h)]
    /\ UNCHANGED <<gapVars, batchVars, cacheVars, keyVars, besideManagerVars,
                   sm_state, state_file, sm_own, sm_durable, sm_instances>>

CreateCheckpointCall(d, data) ==
    /\ Len(sm_durable.created) < MaxCheckpoints
    /\ sm_state' = CreateCheckpoint(sm_state, d, data)
    /\ state_file' = SaveState(state_file, sm_state')
    /\ sm_own' = Creating(sm_own, [description |-> d, data |-> data])
    /\ sm_durable' = Creating(sm_durable, [description |-> d, data |-> data])
    /\ sm_last' = [op |-> "create_checkpoint", outcome |-> Returned(<<>>)]
    /\ UNCHANGED <<gapVars, batchVars, cacheVars, keyVars, besideManagerVars,
                   sm_instances>>

ClearCheckpointsCall ==
    /\ sm_state' = ClearCheckpoints(sm_state)
    /\ state_file' = SaveState(state_file, sm_state')
    /\ sm_own' = [sm_own EXCEPT !.created = <<>>]
    /\ sm_durable' = [sm_durable EXCEPT !.created = <<>>]
    /\ sm_last' = [op |-> "clear_checkpoints", outcome |-> Returned(<<>>)]
    /\ UNCHANGED <<gapVars, batchVars, cacheVars, keyVars, besideManagerVars,
                   sm_instances>>

GetLastCheckpointCall ==
    /\ sm_last' = [op |-> "get_last_checkpoint",
                   outcome |-> Returned(GetLastCheckpoint(sm_state))]
    /\ UNCHANGED <<gapVars, batchVars, cacheVars, keyVars, besideManagerVars,
                   sm_state, state_file, sm_own, sm_durable, sm_instances>>

NextManager ==
    \/ Construct
    \/ \E p \in Paths, h \in FileHashes, n \in EntityCounts :
          MarkFileProcessedCall(p, h, n)
    \/ \E p \in Paths, h \in FileHashes : IsFileProcessedCall(p, h)
    \/ \E data \in CheckpointData : CreateCheckpointCall("checkpoint", data)
    \/ GetLastCheckpointCall
    \/ ClearCheckpointsCall

SpecManager == InitManager /\ [][NextManager]_vars

\* ------------------------------------------------------------------------
\* Explorer: runs of explore on new CodeExplorerV2 objects, with and
\* without caching, and edits of the files between them
\* ------------------------------------------------------------------------
InitExplore ==
    /\ GapIdle
    /\ BatchIdle
    /\ KeyIdle
    /\ BesideExploreIdle
    /\ now = 0
    /\ api_cache = {}
    /\ analysis_cache = {}
    /\ files \in [Paths -> Contents \cup {Absent}]
    /\ last = <<>>
    /\ lastSet = <<>>
    /\ expiredRead = <<>>
    /\ fileSet = <<>>
    /\ stale = <<>>
    /\ cpc = "off"
    /\ xroot \in {RootDirectory} \cup Paths
    /\ explored = [use \in BOOLEAN |-> NoOutcome]

ExploreCall(use) ==
    /\ xroot /= "<none>"
    /\ LET r == ExploreAsync(CacheObject(use), analysis_cache, xroot, files) IN
          /\ explored' = [explored EXCEPT ![use] = r.outcome]
          /\ analysis_cache' = r.table
    /\ UNCHANGED <<gapVars, batchVars, keyVars, besideExploreVars, now,
                   api_cache, files, last, lastSet, expiredRead, fileSet,
                   stale, cpc, xroot>>

\* A file is written, created or removed between two runs.
ExploreEdit(p, bytes) ==
    /\ xroot /= "<none>"
    /\ files[p] /= bytes
    /\ files' = [files EXCEPT ![p] = bytes]
    /\ explored' = [use \in BOOLEAN |-> NoOutcome]
    /\ UNCHANGED <<gapVars, batchVars, keyVars, besideExploreVars, now,
                   api_cache, analysis_cache, last, lastSet, expiredRead,
                   fileSet, stale, cpc, xroot>>

NextExplore ==
    \/ \E use \in BOOLEAN : ExploreCall(use)
    \/ \E p \in Paths, bytes \in Contents \cup {Absent} : ExploreEdit(p, bytes)

SpecExplore == InitExplore /\ [][NextExplore]_vars

\* ------------------------------------------------------------------------
\* Web explorer: one explore run.  The _explore_url coroutines run on one
\* event loop: a step runs one of them from one suspension point (created,
\* loading its page, waiting in gather) to the next.
\* ------------------------------------------------------------------------
InitCrawl ==
    /\ GapIdle
    /\ BatchIdle
    /\ CacheIdle
    /\ KeyIdle
    /\ BesideCrawlIdle
    /\ wx_site \in Sites
    /\ wx_config \in [max_depth : 0..MaxDepth, follow_links : BOOLEAN]
    /\ wx_tasks = <<[url |-> StartUrl, depth |-> 0, parent |-> 0,
                     at |-> "created", loaded |-> FALSE]>>
    /\ visited_urls = {}
    /\ wx_pages = <<>>
    /\ wx_pc = "running"

CrawlTasks == 1..Len(wx_tasks)

\* _explore_url from its start to browser.new_page(): the depth, visited
\* and domain checks and the insertion into visited_urls, with no await
\* between them.
ExploreUrlStart(t) ==
    /\ wx_pc = "running"
    /\ wx_tasks[t].at = "created"
    /\ IF \/ wx_tasks[t].depth > wx_config.max_depth
          \/ wx_tasks[t].url \in visited_urls
          \/ ~ShouldExploreUrl(wx_tasks[t].url, StartUrl.netloc)
       THEN /\ wx_tasks' = [wx_tasks EXCEPT ![t].at = "done"]
            /\ UNCHANGED visited_urls
       ELSE /\ visited_urls' = MarkVisited(visited_urls, wx_tasks[t].url)
            /\ wx_tasks' = [wx_tasks EXCEPT ![t].at = "loading",
                                            ![t].loaded = TRUE]
    /\ UNCHANGED <<gapVars, batchVars, cacheVars, keyVars, besideCrawlVars,
                   wx_site, wx_config, wx_pages, wx_pc>>

\* new_page, goto, content or title raises: the page is closed and the
\* error logged.
PageLoadFails(t) ==
    /\ wx_pc = "running"
    /\ wx_tasks[t].at = "loading"
    /\ wx_tasks' = [wx_tasks EXCEPT ![t].at = "done"]
    /\ UNCHANGED <<gapVars, batchVars, cacheVars, keyVars, besideCrawlVars,
                   wx_site, wx_config, visited_urls, wx_pages, wx_pc>>

\* _analyze_page from the return of page.title() to gather. The fields of
\* WebPage computed from the page's text alone are left out.
AnalyzePage(t) ==
    /\ wx_pc = "running"
    /\ wx_tasks[t].at = "loading"
    /\ LET url == wx_tasks[t].url
           links == PageLinks(wx_site[url], wx_config.follow_links,
                              StartUrl.netloc)
           children ==
               IF wx_config.follow_links
                  /\ wx_tasks[t].depth < wx_config.max_depth
               THEN ChildTasks(links, visited_urls, t, wx_tasks[t].depth)
               ELSE <<>>
       IN  /\ wx_pages' = Append(wx_pages, [url |-> url, links |-> links])
           /\ wx_tasks' = [wx_tasks EXCEPT ![t].at =
                              IF children = <<>> THEN "done" ELSE "gathering"]
                          \o children
    /\ UNCHANGED <<gapVars, batchVars, cacheVars, keyVars, besideCrawlVars,
                   wx_site, wx_config, visited_urls, wx_pc>>

\* asyncio.gather returns once every task it was given is done.
ChildrenDone(t) ==
    /\ wx_pc = "running"
    /\ wx_tasks[t].at = "gathering"
    /\ \A c \in CrawlTasks : wx_tasks[c].parent = t => wx_tasks[c].at = "done"
    /\ wx_tasks' = [wx_tasks EXCEPT ![t].at = "done"]
    /\ UNCHANGED <<gapVars, batchVars, cacheVars, keyVars, besideCrawlVars,
                   wx_site, wx_config, visited_urls, wx_pages, wx_pc>>

\* explore: the browser is closed and self.pages returned.
ExploreReturns ==
    /\ wx_pc = "running"
    /\ wx_tasks[1].at = "done"
    /\ wx_pc' = "returned"
    /\ UNCHANGED <<gapVars, batchVars, cacheVars, keyVars, besideCrawlVars,
                   wx_site, wx_config, wx_tasks, visited_urls, wx_pages>>

NextCrawl ==
    \/ \E t \in CrawlTasks : ExploreUrlStart(t)
    \/ \E t \in CrawlTasks : PageLoadFails(t)
    \/ \E t \in CrawlTasks : AnalyzePage(t)
    \/ \E t \in CrawlTasks : ChildrenDone(t)
    \/ ExploreReturns

SpecCrawl == InitCrawl /\ [][NextCrawl]_vars

\* ------------------------------------------------------------------------
\* Claims about the gap detector (checked under SpecGap)
\* ------------------------------------------------------------------------
\* The gaps of the result that refer to entity e.
GapsOf(e) == SelectSeq(gaps, LAMBDA g : g.entity = e)

GapTypesOf(e) == {GapsOf(e)[k].gap_type : k \in 1..Len(GapsOf(e))}

\* The precedence table of the severity, as the specification states it.
TableSeverity(e) ==
    IF e.type \in {"class", "function"} /\ e.name[1] /= "_" THEN "critical"
    ELSE IF e.type = "method" /\ Len(e.parameters) >= 1 THEN "high"
    ELSE "medium"

\* C1: every public entity without a docstring gets exactly one gap, of type
\* MISSING_DOCSTRING, whose severity is the one of the precedence table.
C1_MissingDocstringGap ==
    gpc = "done" =>
        \A i \in 1..Len(entities) :
            LET e == entities[i] IN
            (e.is_public /\ e.docstring = Null) =>
                /\ Len(GapsOf(e)) = 1
                /\ GapsOf(e)[1].gap_type = "missing_docstring"
                /\ GapsOf(e)[1].severity = TableSeverity(e)

\* A public class named with a leading underscore and no docstring has been
\* analysed next to nothing else: the MEDIUM row of the table applies.
C1_Witness ==
    /\ gpc = "done"
    /\ \E i \in 1..Len(entities) :
          /\ entities[i].is_public /\ entities[i].docstring = Null
          /\ entities[i].type = "class" /\ entities[i].name = <<"_","f">>
          /\ Len(GapsOf(entities[i])) = 1
          /\ GapsOf(entities[i])[1].severity = "medium"

\* C2: no gap is ever produced for a non-public entity, and a list of
\* non-public entities only gives the empty gap list.
C2_NoGapForPrivate ==
    gpc = "done" =>
        /\ \A k \in 1..Len(gaps) : gaps[k].entity.is_public
        /\ \A i \in 1..Len(entities) :
               ~entities[i].is_public => Len(GapsOf(entities[i])) = 0
        /\ (\A i \in 1..Len(entities) : ~entities[i].is_public) => gaps = <<>>

\* A non-public entity with an incomplete docstring was analysed together
\* with a public one that did produce gaps.
C2_Witness ==
    /\ gpc = "done"
    /\ Len(entities) = 2
    /\ ~entities[1].is_public /\ entities[1].docstring = DocShort
    /\ entities[2].is_public
    /\ Len(gaps) >= 1

\* The entities C3 is about, as the claim words them.
C3_Premise(e) ==
    /\ e.is_public
    /\ Len(e.parameters) >= 1
    /\ e.return_type \notin {Null, <<"N","o","n","e">>}
    /\ e.docstring /= Null
    /\ Len(Strip(e.docstring)) < 20
    /\ ~ContainsAny(Lower(e.docstring), ParamKeywords)
    /\ ~ContainsAny(Lower(e.docstring), ReturnKeywords)

C3_ThreeGaps(e) ==
    /\ {"missing_parameters", "missing_returns", "unclear_description"}
          \subseteq GapTypesOf(e)
    /\ Len(GapsOf(e)) >= 3

\* C3 as stated: any docstring shorter than 20 characters, any return type
\* other than null and 'None'.
C3_Original ==
    gpc = "done" =>
        \A i \in 1..Len(entities) :
            C3_Premise(entities[i]) => C3_ThreeGaps(entities[i])

\* C3 (amended): a public entity with at least one parameter, a non-empty
\* return type other than 'None' and a non-empty docstring that is shorter
\* than 20 characters after stripping and names no parameter or return
\* section gets (at least) the gaps MISSING_PARAMETERS, MISSING_RETURNS and
\* UNCLEAR_DESCRIPTION.
C3_IncompleteDocstringGaps ==
    gpc = "done" =>
        \A i \in 1..Len(entities) :
            LET e == entities[i] IN
            (C3_Premise(e) /\ e.docstring /= <<>> /\ e.return_type /= <<>>)
                => C3_ThreeGaps(e)

\* The entity of the specification's example: a short docstring whose raw
\* length is 20 or more only because of surrounding blanks.
C3_Witness ==
    /\ gpc = "done"
    /\ \E i \in 1..Len(entities) :
          /\ C3_Premise(entities[i])
          /\ entities[i].docstring = DocPadded
          /\ entities[i].return_type = <<"i","n","t">>
          /\ C3_ThreeGaps(entities[i])

\* ------------------------------------------------------------------------
\* Claims about the batch orchestrator (checked under SpecBatch)
\* ------------------------------------------------------------------------
\* C4: whatever the order of completion, the i-th element of the returned
\* list is the result process_gap produced for the i-th input gap.
C4_ResultsInInputOrder ==
    bpc = "returned" =>
        /\ Len(returned) = Len(bgaps)
        /\ \A i \in Tasks :
              tresult[i][1] = i - 1 /\ returned[i] = tresult[i][2]

\* Three gaps completed in reverse order with different results.
C4_Witness ==
    /\ bpc = "returned"
    /\ order = <<3, 2, 1>>
    /\ returned[1] = <<"doc1", "why1">>
    /\ returned[2] = ErrorPlaceholder("RateLimitError")
    /\ returned[3] = <<"doc2", "why2">>

\* C5: the batch returns one result per gap; a gap whose generation failed
\* gets ("", "Error: ...") and a gap whose generation succeeded gets the
\* pair that was generated for it.
C5_PartialFailureTolerant ==
    bpc = "returned" =>
        /\ Len(returned) = Len(bgaps)
        /\ \A i \in Tasks :
              /\ outcome[i].kind = "raised" =>
                    returned[i] = <<"", <<"Error: ", outcome[i].err>>>>
              /\ outcome[i].kind = "ok" => returned[i] = outcome[i].pair

\* C6: at most max_concurrent generations are in flight at any time.
C6_ConcurrencyBound == Cardinality(InFlight) <= max_concurrent

\* The gate is full and a further gap is waiting for it.
C6_Witness ==
    /\ max_concurrent = 2
    /\ Cardinality(InFlight) = 2
    /\ \E i \in Tasks : tstate[i] = "queued"

\* ------------------------------------------------------------------------
\* Claims about the cache store (C7, C8 checked under SpecCache, C9 under
\* SpecFileCache)
\* ------------------------------------------------------------------------
RowsOf(table, k) == {r \in table : r.key = k}

\* C7: set_api_response is an upsert (one row per key, holding the value of
\* the set and the expiry time-of-set + ttl), and a get issued before the
\* expiry of the latest set on its key returns the value of that set.
C7_GetReturnsLatestSet ==
    /\ \A k \in Keys : Cardinality(RowsOf(api_cache, k)) <= 1
    /\ last.op = "set_api_response" =>
          \E r \in api_cache :
              /\ RowsOf(api_cache, last.key) = {r}
              /\ r.value = lastSet[last.key].value
              /\ FromIsoFormat(r.expires_at)
                    = last.at + lastSet[last.key].ttl * TicksPerHour
    /\ (/\ last.op = "get_api_response"
        /\ lastSet[last.key].set
        /\ last.at < lastSet[last.key].at
                        + lastSet[last.key].ttl * TicksPerHour)
          => last.result = lastSet[last.key].value

\* A key was set twice and is read, later but before the expiry, with the
\* value of the second set.
C7_Witness ==
    /\ last.op = "get_api_response"
    /\ lastSet[last.key].set /\ lastSet[last.key].replaced
    /\ lastSet[last.key].at < last.at
    /\ last.at < lastSet[last.key].at + lastSet[last.key].ttl * TicksPerHour
    /\ last.result = "v2"

\* C8: a get that finds a row whose expiry is in the past returns None and
\* removes the row, which stays absent until the key is set again; a get
\* that finds a row that is not expired returns its value and keeps it.
C8_ExpiredRowRemovedOnRead ==
    /\ (last.op = "get_api_response" /\ last.found /= NoRow) =>
          IF FromIsoFormat(last.found.expires_at) < last.at
          THEN last.result = Null /\ RowsOf(api_cache, last.key) = {}
          ELSE last.result = last.found.value /\ last.found \in api_cache
    /\ \A k \in Keys : expiredRead[k] => RowsOf(api_cache, k) = {}

\* After the read that removed an expired row the key is read again, and
\* again found absent.
C8_Witness ==
    /\ last.op = "get_api_response"
    /\ expiredRead[last.key]
    /\ last.found = NoRow
    /\ last.result = Null
    /\ \E k \in Keys : k /= last.key /\ RowsOf(api_cache, k) /= {}

\* C9: once entities are stored for a file, a get on the file returns them
\* while every get since has seen the bytes the file had at the set; a get
\* that sees other bytes returns None and deletes the row, and from then on
\* every get returns None until the next set on the file.
C9_FileAnalysisInvalidation ==
    (/\ last.op = "get_file_analysis"
     /\ fileSet[last.key].set
     /\ last.bytes /= Absent)
    => LET fs == fileSet[last.key] IN
       /\ last.bytes /= fs.bytes => stale[last.key]
       /\ stale[last.key] =>
             last.result = Null /\ RowsOf(analysis_cache, last.key) = {}
       /\ ~stale[last.key] =>
             /\ Len(last.result) = Len(fs.entities)
             /\ \A k \in 1..Len(fs.entities) :
                   last.result[k] = [form |-> "dict", of |-> fs.entities[k].of]

\* The file was edited and read (a miss), then restored to the bytes it had
\* at the set, and the read is still a miss.
C9_Witness ==
    /\ last.op = "get_file_analysis"
    /\ fileSet[last.key].set
    /\ stale[last.key]
    /\ last.bytes = fileSet[last.key].bytes
    /\ last.result = Null

\* ------------------------------------------------------------------------
\* Claims about the cache key (checked under SpecKey)
\* ------------------------------------------------------------------------
\* Two gaps agree on what the key is said to depend on.
C10_SameKeyFields(g1, g2) ==
    /\ g1.gap_type = g2.gap_type
    /\ g1.location = g2.location
    /\ (g1.entity = NoEntity) = (g2.entity = NoEntity)
    /\ g1.entity /= NoEntity =>
          /\ g1.entity.name = g2.entity.name
          /\ g1.entity.signature = g2.entity.signature
          /\ g1.entity.parameters = g2.entity.parameters
          /\ g1.entity.return_type = g2.entity.return_type

\* C10: under one generation config, two gaps with the same type, location
\* and entity name, signature, parameters and return type have the same
\* cache key, whatever their id, description, severity, current
\* documentation and context are.
C10_KeyIgnoresOtherFields ==
    (kpc = "done" /\ C10_SameKeyFields(kgap1, kgap2)) => key1 = key2

\* Two gaps on the same entity that differ in every other field.
C10_Witness ==
    /\ kpc = "done"
    /\ C10_SameKeyFields(kgap1, kgap2)
    /\ kgap1.entity /= NoEntity
    /\ kgap1.id /= kgap2.id
    /\ kgap1.description /= kgap2.description
    /\ kgap1.severity /= kgap2.severity
    /\ kgap1.current_documentation /= kgap2.current_documentation
    /\ kgap1.context /= kgap2.context
    /\ key1 = key2

\* ------------------------------------------------------------------------
\* Claims about the response parser (checked under SpecParse)
\* ------------------------------------------------------------------------
\* The position of the first DOCUMENTATION: marker.
FirstDocMarker == CHOOSE k \in 1..Len(content) :
                      content[k] = DocMarker /\ \A j \in 1..(k - 1) : content[j] /= DocMarker

\* The text after the first DOCUMENTATION: marker.
AfterDocMarker == SubSeq(content, FirstDocMarker + 1, Len(content))

\* C13: a response holding both markers is parsed into the text between
\* DOCUMENTATION: and REASONING: and the text after REASONING: (both cleaned
\* of surrounding blanks and backticks); a response lacking a marker is
\* returned whole, stripped, with the generic reasoning; no call raises.
C13_ParseResponseContract ==
    ppc = "done" =>
        IF HasMarker(content, DocMarker) /\ HasMarker(content, ReasoningMarker)
        THEN /\ parsed.kind = "ok"
             /\ HasMarker(AfterDocMarker, ReasoningMarker)
             /\ parsed.pair[1] = CleanUp(SplitOn(AfterDocMarker, ReasoningMarker)[1])
             /\ parsed.pair[2] = CleanUp(SplitOn(AfterDocMarker, ReasoningMarker)[2])
        ELSE parsed = Returned(<<Strip(content), GenericReasoning>>)

\* ------------------------------------------------------------------------
\* Claims about single-gap generation (checked under SpecGen)
\* ------------------------------------------------------------------------
\* The calls made through the V2 client.
AsyncCalls == {i \in 1..Len(gcalls) : gcalls[i].client = "ClaudeClientV2"}

\* The LLM request of call i, if made, returns a response that parses.
LlmWorks(i) == TryGenerate(gcalls[i].llm).kind = "ok"

C12_FailureRaisedNoRetry ==
    \A i \in 1..Len(gcalls) :
        /\ gcalls[i].llm_calls <= 1
        /\ (gcalls[i].llm_calls = 1 /\ gcalls[i].llm.kind = "raised")
              => gcalls[i].outcome = Raised(gcalls[i].llm.err)

\* Both clients have made an LLM request that failed with a rate-limit error.
C12_Witness ==
    /\ Len(gcalls) = 2
    /\ gcalls[1].client = "ClaudeClient"
    /\ gcalls[2].client = "ClaudeClientV2"
    /\ \A i \in {1, 2} :
          /\ gcalls[i].llm = Raised("RateLimitError")
          /\ gcalls[i].llm_calls = 1
          /\ gcalls[i].outcome = Raised("RateLimitError")

\* ------------------------------------------------------------------------
\* Further claims about the batch orchestrator (checked under SpecBatch)
\* ------------------------------------------------------------------------
\* What the batch returns for the same gaps and the same generation
\* outcomes when no progress callback is passed.
ReturnedWithoutCallback ==
    BatchReturn([k \in 1..Len(bgaps) |->
                    ProcessGapResult(k - 1, outcome[k], FALSE, FALSE)])

\* C14: the list a batch returns is the list it returns, for the same gaps
\* and generation outcomes, without a progress callback, whatever the
\* callback does.
C14_CallbackHasNoEffect ==
    bpc = "returned" => returned = ReturnedWithoutCallback

\* ------------------------------------------------------------------------
\* Further claims about the gap detector (checked under SpecGap)
\* ------------------------------------------------------------------------
\* Two entities agree on publicness, type and parameter presence.
C15_SameThree(e1, e2) ==
    /\ e1.is_public = e2.is_public
    /\ e1.type = e2.type
    /\ (e1.parameters = <<>>) = (e2.parameters = <<>>)

\* The gaps of one analysis whose entities agree on publicness, type and
\* parameter presence have equal severity.
C15_Original ==
    \A i, j \in 1..Len(gaps) :
        C15_SameThree(gaps[i].entity, gaps[j].entity)
            => gaps[i].severity = gaps[j].severity

\* C15: the gaps emitted for entities that agree on publicness, type,
\* parameter presence and on whether the name starts with an underscore have
\* equal severity, and every gap carries the severity of the precedence
\* table for the entity it refers to.
C15_SeverityDependsOnFourAttributes ==
    /\ \A i, j \in 1..Len(gaps) :
          (/\ C15_SameThree(gaps[i].entity, gaps[j].entity)
           /\ StartsWith(gaps[i].entity.name, <<"_">>)
                 = StartsWith(gaps[j].entity.name, <<"_">>))
          => gaps[i].severity = gaps[j].severity
    /\ \A i \in 1..Len(gaps) :
          gaps[i].severity = TableSeverity(gaps[i].entity)

\* Two public functions with parameters, one named f and one named _f, both
\* lacking a docstring, have been analysed together and their gaps differ in
\* severity.
C15_Witness ==
    /\ gpc = "done"
    /\ Len(entities) = 2
    /\ C15_SameThree(entities[1], entities[2])
    /\ entities[1].is_public /\ entities[1].type = "function"
    /\ entities[1].name = <<"f">> /\ entities[2].name = <<"_", "f">>
    /\ Len(gaps) >= 2
    /\ gaps[1].severity = "critical"
    /\ gaps[Len(gaps)].severity = "medium"

\* ------------------------------------------------------------------------
\* Claims about the web-page analysis (checked under SpecWeb)
\* ------------------------------------------------------------------------
\* The gap the claim gives page p: none, or its type and severity.
PageVerdict(p) ==
    IF ~p.has_docs THEN <<"missing_api_docs", "high">>
    ELSE IF p.doc_completeness_score < IncompleteScore
    THEN <<"incomplete_docstring", "medium">>
    ELSE <<>>

RECURSIVE PageVerdicts(_)
\* The verdicts of the pages of a list that get a gap, in the order of the
\* pages, each with the url of its page.
PageVerdicts(ps) ==
    IF ps = <<>> THEN <<>>
    ELSE (IF PageVerdict(Head(ps)) = <<>> THEN <<>>
          ELSE <<<<Head(ps).url>> \o PageVerdict(Head(ps))>>)
         \o PageVerdicts(Tail(ps))

\* C16: every page gets at most one gap: HIGH missing_api_docs when it has no
\* documentation, else MEDIUM incomplete_docstring when its score is below
\* 0.5, else none.
C16_WebPageGaps ==
    wpc = "done" =>
        [k \in 1..Len(web_gaps) |->
            <<web_gaps[k].location, web_gaps[k].gap_type, web_gaps[k].severity>>]
        = PageVerdicts(pages)

\* A page without documentation and a documented page scoring just below
\* one half have been analysed together.
C16_Witness ==
    /\ wpc = "done"
    /\ Len(pages) = 2
    /\ ~pages[1].has_docs
    /\ pages[2].has_docs /\ pages[2].doc_completeness_score = 49
    /\ Len(web_gaps) = 2
    /\ web_gaps[1].gap_type = "missing_api_docs"
    /\ web_gaps[2].gap_type = "incomplete_docstring"

\* ------------------------------------------------------------------------
\* Claims about clearing the cache store (checked under SpecStore)
\* ------------------------------------------------------------------------
\* The API-response rows whose expiry lies before the clock reading t.
RowsInThePast(table, t) == {r \in table : FromIsoFormat(r.expires_at) < t}

\* C17: clear_expired removes exactly the API-response rows whose expiry is
\* in the past, returns their number and leaves the other API-response rows
\* and all file-analysis rows as they are; clear_all empties both tables.
C17_ClearingFrame ==
    [][/\ ClearExpiredCall =>
             /\ api_cache' = api_cache \ RowsInThePast(api_cache, now)
             /\ last'.result = Cardinality(RowsInThePast(api_cache, now))
             /\ analysis_cache' = analysis_cache
       /\ ClearAllCall => (api_cache' = {} /\ analysis_cache' = {})]_vars

\* clear_expired has removed one of two API-response rows while a file
\* analysis was stored.
C17_Witness ==
    /\ last.op = "clear_expired"
    /\ last.result = 1
    /\ Cardinality(api_cache) = 1
    /\ analysis_cache /= {}

\* ------------------------------------------------------------------------
\* Claims about overlapping cache operations (checked under SpecRace)
\* ------------------------------------------------------------------------
\* C18: whatever the interleaving of the steps of get_api_response and
\* set_api_response calls, each key holds the value of the set that committed
\* last on that key for as long as that entry has not expired: no operation
\* on another key and no overlapping get removes or changes it.
C18_LastWriterWins ==
    \A k \in Keys :
        (committed[k] /= NoSet /\ now <= committed[k].expires)
            => /\ SelectByKey(api_cache, k) /= NoRow
               /\ SelectByKey(api_cache, k).value = committed[k].value

\* ------------------------------------------------------------------------
\* Claims about the apply step (checked under SpecApply)
\* ------------------------------------------------------------------------
\* C19: the statistics an apply step returns count every improvement of the
\* list in exactly one of applied, failed and skipped, so the three add up
\* to total, the length of the list.
C19_EveryImprovementCounted ==
    apc = "done" =>
        /\ stats.total = Len(acall.improvements)
        /\ stats.applied + stats.failed + stats.skipped = stats.total

\* ------------------------------------------------------------------------
\* Claims about generate_improvements (checked under SpecImprove)
\* ------------------------------------------------------------------------
\* C20: every improvement generate_improvements produces has a confidence
\* score between 0 and 1 (0 and 100 hundredths), whatever the generated
\* text, the gap and the config.
C20_ConfidenceInUnitInterval ==
    ipc = "done" =>
        \A i \in 1..Len(improvements) :
            /\ improvements[i].confidence_score >= 0
            /\ improvements[i].confidence_score <= 100

\* An improvement whose additive score exceeds 1.0 and was capped.
C20_Witness ==
    /\ ipc = "done"
    /\ \E i \in 1..Len(improvements) :
          /\ ConfidenceSum(improvements[i].improved_documentation,
                           improvements[i].gap, iconfig) = 110
          /\ improvements[i].confidence_score = 100

\* ------------------------------------------------------------------------
\* Claims about the state manager (checked under SpecManager)
\* ------------------------------------------------------------------------
\* C21: on a StateManager, is_file_processed(p, h) is true exactly when p
\* was marked on it and h is the hash it was last marked with (so it is
\* false for every other hash and for a path never marked), and once a
\* checkpoint was created get_last_checkpoint returns the one created last.
C21_MarkedAndLastCheckpoint ==
    /\ \A p \in Paths, h \in FileHashes :
          IsFileProcessed(sm_state, p, h) = Returned(<<p, h>> \in sm_own.marked)
    /\ sm_own.created /= <<>> =>
          GetLastCheckpoint(sm_state) = sm_own.created[Len(sm_own.created)]

\* C28: what was marked or created on any StateManager of the state file is
\* reported by the current one, constructed on the same file:
\* is_file_processed(p, h) is true for the hash p was last marked with,
\* get_last_checkpoint returns the checkpoint created last, and
\* mark_file_processed succeeds.
C28_StateSurvivesInstances ==
    /\ \A m \in sm_durable.marked :
          IsFileProcessed(sm_state, m[1], m[2]) = Returned(TRUE)
    /\ sm_durable.created /= <<>> =>
          GetLastCheckpoint(sm_state) = sm_durable.created[Len(sm_durable.created)]
    /\ \A p \in Paths, h \in FileHashes, n \in EntityCounts :
          MarkFileProcessed(sm_state, p, h, n).kind = "ok"

\* ------------------------------------------------------------------------
\* Claims about the completeness checks (checked under SpecGap)
\* ------------------------------------------------------------------------
\* The gap types the completeness checks are stated to give entity e.
C22_ExpectedTypes(e) ==
    LET lowered == Lower(e.docstring) IN
    {t \in {"missing_parameters"} :
        Len(e.parameters) >= 1 /\ ~ContainsAny(lowered, ParamKeywords)}
    \cup {t \in {"missing_returns"} :
        /\ e.return_type \notin {Null, <<"N","o","n","e">>}
        /\ ~ContainsAny(lowered, ReturnKeywords)}
    \cup {t \in {"missing_exceptions"} :
        /\ e.signature /= Null
        /\ Contains(Lower(e.signature), <<"r","a","i","s","e">>)
        /\ ~ContainsAny(lowered, ExceptionKeywords)}
    \cup {t \in {"unclear_description"} : Len(Strip(e.docstring)) < 20}

C22_ExactlyExpected(e) ==
    /\ GapTypesOf(e) = C22_ExpectedTypes(e)
    /\ Len(GapsOf(e)) = Cardinality(GapTypesOf(e))
    /\ \A k \in 1..Len(GapsOf(e)) : GapsOf(e)[k].severity = TableSeverity(e)

C23_Moves(i, from, to) == tstate[i] = from /\ tstate'[i] = to

\* C23: each gap moves only from QUEUED to IN_FLIGHT and from IN_FLIGHT to
\* DONE; a gap that reaches DONE, by success or by failure, gives its slot
\* of the semaphore back; and with max_concurrent >= 1, every gap is
\* eventually DONE and batch_generate_async returns.
C23_ForwardAndTerminates ==
    /\ [][\A i \in Tasks :
             tstate'[i] /= tstate[i] =>
                 \/ C23_Moves(i, "queued", "in_flight")
                 \/ C23_Moves(i, "in_flight", "done") /\ sem' = sem + 1]_vars
    /\ (max_concurrent >= 1 =>
           <>(bpc = "returned" /\ \A i \in Tasks : tstate[i] = "done"))

\* A batch of more gaps than slots has returned, and the first gap, which
\* failed, was followed through the gate by another.
C23_Witness ==
    /\ bpc = "returned"
    /\ max_concurrent = 1
    /\ Len(bgaps) >= 2
    /\ outcome[1].kind = "raised"
    /\ order[1] = 1
    /\ \A i \in Tasks : tstate[i] = "done"

\* ------------------------------------------------------------------------
\* Claims about the progress callback (checked under SpecBatch)
\* ------------------------------------------------------------------------
\* The number of calls of the progress callback made for gap i.
C24_CallsFor(i) ==
    Cardinality({k \in 1..Len(cbcalls) : cbcalls[k][1] = i - 1})

\* C24: when a progress callback is supplied, it is called exactly once for
\* each gap, after the gap's generation has completed, whether it succeeded
\* or failed.
C24_CallbackOncePerGap ==
    has_callback =>
        \A i \in Tasks :
            /\ tstate[i] = "done" => C24_CallsFor(i) = 1
            /\ tstate[i] /= "done" => C24_CallsFor(i) = 0

\* ------------------------------------------------------------------------
\* Claims about the totality of the parser (checked under SpecParse)
\* ------------------------------------------------------------------------
\* C25: _parse_response returns a (documentation, reasoning) pair for every
\* response, also when REASONING: comes before DOCUMENTATION: or a marker
\* occurs more than once; it never raises.
C25_ParseResponseTotal ==
    ppc = "done" => parsed.kind = "ok" /\ Len(parsed.pair) = 2

\* ------------------------------------------------------------------------
\* Claims about failed generations and the cache (checked under SpecGen)
\* ------------------------------------------------------------------------
\* C26: a generate_documentation_async call that raises leaves the API
\* response cache as it was, and a later generation for a gap with the same
\* cache-key fields makes an LLM request again.
C26_FailureWritesNothing ==
    /\ [][(/\ Len(gcalls') = Len(gcalls) + 1
           /\ gcalls'[Len(gcalls')].client = "ClaudeClientV2"
           /\ gcalls'[Len(gcalls')].outcome.kind = "raised")
          => api_cache' = api_cache]_vars
    /\ [](\A i, j \in AsyncCalls :
            (/\ i < j
             /\ gcalls[i].outcome.kind = "raised"
             /\ C10_SameKeyFields(gcalls[i].gap, gcalls[j].gap))
            => gcalls[j].llm_calls = 1)

\* ------------------------------------------------------------------------
\* Claims about the explorer (checked under SpecExplore)
\* ------------------------------------------------------------------------
\* C27: on the same files, explore with use_cache = true gives what explore
\* with use_cache = false gives, whatever runs and edits came before.
C27_CacheTransparent ==
    (explored[TRUE] /= NoOutcome /\ explored[FALSE] /= NoOutcome)
        => explored[TRUE] = explored[FALSE]

\* ------------------------------------------------------------------------
\* Claims about the two batch clients (checked under SpecBatch)
\* ------------------------------------------------------------------------
\* The ways the generation of one gap can end: a pair, or a failure.
C29_Generations ==
    {Returned(pair) : pair \in GenPairs} \cup {Raised(err) : err \in ApiErrors}

\* An assignment of an ending to each gap that agrees with the run of the
\* concurrent batch wherever that run made the LLM request.
C29_AgreesWithRun(generation) ==
    \A i \in Tasks : ~use_cache => generation[i] = outcome[i]

\* C29: for every assignment of a success value or a failure to each gap's
\* generation, the list batch_generate_async returns when it is given no
\* progress callback is the list batch_generate returns.
C29_BatchesAgree ==
    (bpc = "returned" /\ ~has_callback) =>
        \A generation \in [Tasks -> C29_Generations] :
            C29_AgreesWithRun(generation) => returned = BatchGenerate(generation)

\* ------------------------------------------------------------------------
\* Claims about the web explorer (checked under SpecCrawl)
\* ------------------------------------------------------------------------
\* C30: in a run no URL is loaded more than once, and self.pages never
\* holds two entries for one URL, whatever the pages link to and however
\* the explorations interleave.
C30_EachUrlOnce ==
    /\ \A s, t \in CrawlTasks :
          (wx_tasks[s].loaded /\ wx_tasks[t].loaded
           /\ wx_tasks[s].url = wx_tasks[t].url) => s = t
    /\ \A i, j \in 1..Len(wx_pages) :
          wx_pages[i].url = wx_pages[j].url => i = j

\* Two pages explored at the same time both linked to one URL not yet
\* visited: one of the two explorations of it loaded the page, the other
\* found the URL visited and returned.
C30_Witness ==
    \E s, t \in CrawlTasks :
        /\ wx_tasks[s].url = wx_tasks[t].url
        /\ wx_tasks[s].parent /= wx_tasks[t].parent
        /\ wx_tasks[s].loaded
        /\ ~wx_tasks[t].loaded /\ wx_tasks[t].at = "done"
        /\ \E i \in 1..Len(wx_pages) : wx_pages[i].url = wx_tasks[s].url

====
